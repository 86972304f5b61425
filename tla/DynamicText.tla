----------------------------- MODULE DynamicText -----------------------------
(***************************************************************************)
(* textDynamic_t of src/core/util/shapes (text.cpp): a text keeps its      *)
(* storage and its buffers in the library while strings of different       *)
(* lengths come and go.  The item of a group of four vertices and six      *)
(* indices is the symbol they show; positions and colours are left out.    *)
(***************************************************************************)
EXTENDS Naturals, Sequences, FiniteSets, SequencesExt

CONSTANTS Letters, TextBound, UpdateBound, \* symbols, and bounds on texts
          SymbolLimit  \* breakingIndex<uint16_t>()/4, 16383: indices go no further

ASSUME DynamicTextAssumption == TextBound \in Nat /\ SymbolLimit \in Nat

(* Spaces show nothing, and an escape takes the symbol behind it.          *)
Symbols == Letters \cup {"space", "escape"}
CountAll(text) == Len(text)                     \* spaces get vertices, too
CountDrawn(text) == Cardinality({i \in DOMAIN text : text[i] # "space"})
TotalSymbols(text) == CountDrawn(text)

(* Too many symbols are cut off, of all the text; the count stays what it  *)
(* was, and with it what is stored and drawn.                              *)
Truncated(t) == IF TotalSymbols(t) > SymbolLimit THEN SubSeq(t, 1, SymbolLimit) ELSE t

(* The glyphs MakeText comes to.                                           *)
MakeSymbol(made, s) ==
  IF made.escaped THEN [made EXCEPT !.escaped = FALSE]
  ELSE IF s = "escape" THEN [made EXCEPT !.escaped = TRUE]
  ELSE IF s = "space" THEN made
  ELSE [made EXCEPT !.glyphs = Append(@, s)]
Written(text) == FoldLeft(MakeSymbol, [glyphs |-> <<>>, escaped |-> FALSE], text)
Glyphs(text) == Written(text).glyphs

(* Writing starts at the front; what is behind stays.                      *)
Overwritten(items, written) == written \o SubSeq(items, Len(written) + 1, Len(items))
Resized(items, n) == [i \in 1 .. n |-> IF i <= Len(items) THEN items[i] ELSE "blank"]
MakeText(items, text) ==
  Overwritten(IF Len(items) < TotalSymbols(text) THEN Resized(items, TotalSymbols(text)) ELSE items,
              Glyphs(Truncated(text)))

VARIABLES
  storage,   \* textStorage_t
  buffer,    \* the buffers in the library
  renderI,   \* how much of them is drawn
  text, updates

textVars == <<storage, buffer, renderI, text, updates>>

TextInit == storage = <<>> /\ buffer = <<>> /\ renderI = 0 /\ text = <<>> /\ updates = 0

(* textDynamic_t::UpdateText.  Buffers that are too small are made anew;   *)
(* others get the part that is drawn.  A text of nothing is refused.       *)
UpdateText(t) ==
  LET made == MakeText(storage, t)
      n == TotalSymbols(t)
  IN
  /\ updates < UpdateBound /\ n > 0
  /\ storage' = made
  /\ buffer' = IF Len(buffer) < n THEN made ELSE Overwritten(buffer, SubSeq(made, 1, n))
  /\ renderI' = n
  /\ text' = t /\ updates' = updates + 1

(* An escape at the end of what is kept would take what is not there.      *)
TextNext ==
  \E t \in UNION {[1 .. n -> Symbols] : n \in 1 .. TextBound} :
    ~Written(Truncated(t)).escaped /\ UpdateText(t)

TextSpec == TextInit /\ [][TextNext]_textVars

-----------------------------------------------------------------------------
(* A text without escapes that the indices suffice for draws its own       *)
(* glyphs and nothing of earlier texts, longer or shorter; a longer one    *)
(* draws its beginning, and behind it what was there (text.cpp:40-158,     *)
(* 352-408).  With an escape it is not so: both its symbols are counted    *)
(* and neither writes a glyph, so that earlier glyphs are drawn, too.      *)
TextShowsItself ==
  (\A i \in DOMAIN text : text[i] # "escape") =>
    LET drawn == SubSeq(buffer, 1, renderI)
        beginning == Glyphs(SubSeq(text, 1, SymbolLimit))
    IN
    IF CountDrawn(text) <= SymbolLimit
    THEN drawn = Glyphs(text)
    ELSE SubSeq(drawn, 1, Len(beginning)) = beginning
=============================================================================
