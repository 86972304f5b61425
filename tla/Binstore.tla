------------------------------- MODULE Binstore -------------------------------
(***************************************************************************)
(* binstore_t of src/extra/binstore: one file with a header that says how  *)
(* much data follows it, written by one store at a time and read by many,  *)
(* under flock.  The game keeps its map in one (world.bbw).                *)
(*                                                                         *)
(* The system is Linux, stdio holds what was written back as long as it    *)
(* likes, and a process may die at any time.  A byte of the model is one   *)
(* value, the length of a string, or one character of it.                  *)
(***************************************************************************)
EXTENDS Naturals, Sequences, SequencesExt

CONSTANTS Stores,     \* the variables of this class, in whatever process
          Items,      \* what is written: <<"value", byte>> or <<"string", bytes>>
          Tags,
          SizeLimit,  \* what the header can express, 2^32 - 17 in the code
          StringLimit, \* the longest string that is written, 2^16 - 1 in the code
          ItemBound   \* items written into one file

ASSUME BinstoreAssumption ==
  /\ Items \subseteq ({"value"} \X Nat) \cup ({"string"} \X Seq(Nat))
  /\ Tags \subseteq Nat /\ SizeLimit \in Nat /\ StringLimit \in Nat

serialHeader_t(size, tag) == <<size, tag>>
Undef == [om |-> "undef", at |-> 0, tag |-> 0, dirty |-> FALSE, dataSize |-> 0, held |-> <<>>]

(* The bytes of an item, and those that are written before an error: of    *)
(* an empty string the length is, and then fwrite of nothing comes back as *)
(* a failure.                                                              *)
Bytes(item) == IF item[1] = "value" THEN <<item[2]>> ELSE <<Len(item[2])>> \o item[2]
IsTooLong(item) == item[1] = "string" /\ Len(item[2]) > StringLimit

(* What becomes of the characters that Read has before it: fread of        *)
(* nothing fails and leaves the caller's string alone, and assign takes    *)
(* them for a C string, which ends at the first NUL.                       *)
UpToNul(q) ==
  IF \E j \in DOMAIN q : q[j] = 0
  THEN SubSeq(q, 1, SelectInSeq(q, LAMBDA c : c = 0) - 1)
  ELSE q
AsRead(q) == IF q = <<>> THEN <<"failed", <<>>>> ELSE <<"string", UpToNul(q)>>

VARIABLES
  file,     \* on the disk: a header, then bytes; or nothing
  exists,   \* there is such a file
  store,    \* at counts bytes behind the header, held is stdio's buffer
  written,  \* what the file's last writer has written, and the tag it set
  got,      \* what each reader has read, item by item
  closed    \* the file's last writer has closed it

binstoreVars == <<file, exists, store, written, got, closed>>

BinstoreInit ==
  /\ file = <<>> /\ exists = FALSE
  /\ store = [s \in Stores |-> Undef]
  /\ written = [items |-> <<>>, tag |-> 0]
  /\ got = [s \in Stores |-> <<>>]
  /\ closed = FALSE

IsGood(s) == store[s].om # "undef"
Held(om) == \E s \in Stores : store[s].om = om     \* the lock belongs to the open file

-----------------------------------------------------------------------------
(* Flush and fclose of a writer: all that is held goes to the file, and    *)
(* then the header is written once more if there is something new in it    *)
(* and it can tell the size.                                               *)
PutBack(st) ==
  LET all == file \o st.held IN
  IF st.dirty /\ st.dataSize <= SizeLimit
  THEN [all EXCEPT ![1] = serialHeader_t(st.dataSize, st.tag)]
  ELSE all

FileAfterReset(s) == IF store[s].om = "create" THEN PutBack(store[s]) ELSE file
ClosedAfterReset(s) == closed \/ store[s].om = "create"

(* Reset, and a move of an undefined store into this one.  A reader that   *)
(* was given a tag is dirty as well, and fails to write it.                *)
Replaced(s, by) ==
  /\ file' = FileAfterReset(s) /\ closed' = ClosedAfterReset(s)
  /\ store' = [store EXCEPT ![s] = by]
  /\ UNCHANGED <<written, got, exists>>
Reset(s) == IsGood(s) /\ Replaced(s, [Undef EXCEPT !.tag = store[s].tag])

(* store = Create(...).  The file is opened and locked before the variable *)
(* gives up what it has, so a store that is open keeps its own file from   *)
(* being created anew; the file is emptied under the lock.                 *)
LockedShared == ~Held("create")
LockedAlone == ~Held("create") /\ ~Held("read")
MayCreate == LockedAlone

Create(s) ==
  IF ~MayCreate
  THEN Replaced(s, Undef)
  ELSE /\ file' = <<>> /\ exists' = TRUE /\ closed' = FALSE
       /\ written' = [items |-> <<>>, tag |-> 0]
       /\ store' = [store EXCEPT ![s] = [Undef EXCEPT !.om = "create", !.held = <<serialHeader_t(0, 0)>>]]
       /\ UNCHANGED got

(* store = Read(...).  A file too short for a header is taken for one of   *)
(* no data, and good.                                                      *)
Header == IF file = <<>> THEN serialHeader_t(0, 0) ELSE file[1]
OpenToRead(s) ==
  IF ~exists \/ ~LockedShared
  THEN Replaced(s, Undef)
  ELSE /\ store' = [store EXCEPT ![s] = [Undef EXCEPT !.om = "read", !.dataSize = Header[1], !.tag = Header[2]]]
       /\ got' = [got EXCEPT ![s] = <<>>]
       /\ UNCHANGED <<file, exists, written, closed>>

(* to = std::move(from).                                                   *)
MoveStore(to, from) ==
  /\ to # from /\ IsGood(from)
  /\ file' = FileAfterReset(to) /\ closed' = ClosedAfterReset(to)
  /\ store' = [store EXCEPT ![to] = store[from], ![from] = Undef]
  /\ got' = [got EXCEPT ![to] = got[from], ![from] = <<>>]
  /\ UNCHANGED <<written, exists>>

-----------------------------------------------------------------------------
(* A string too long for its length is refused, and nothing is written.    *)
WriteItem(s, item) ==
  /\ store[s].om = "create" /\ Len(written.items) < ItemBound
  /\ IF IsTooLong(item)
     THEN UNCHANGED <<store, written>>
     ELSE /\ store' = [store EXCEPT ![s].held = @ \o Bytes(item), ![s].dataSize = @ + Len(Bytes(item)),
                                    ![s].dirty = TRUE]
          /\ written' = [written EXCEPT !.items = Append(@, item)]
  /\ UNCHANGED <<file, exists, got, closed>>

SetTag(s, tag) ==
  /\ IsGood(s)
  /\ store' = [store EXCEPT ![s].tag = tag, ![s].dirty = TRUE]
  /\ written' = IF store[s].om = "create" THEN [written EXCEPT !.tag = tag] ELSE written
  /\ UNCHANGED <<file, exists, got, closed>>

(* The next n bytes, as far as the header lets them be read.               *)
Enough(s, n) == store[s].dataSize >= n /\ store[s].at + n < Len(file)
Next1(s) == file[store[s].at + 2]
Skipped(s, n) == [store EXCEPT ![s].at = @ + n, ![s].dataSize = @ - n]

(* A reader asks for the kinds that were written, in their order.          *)
Asked(s, kind) ==
  /\ store[s].om = "read" /\ Len(got[s]) < Len(written.items)
  /\ written.items[Len(got[s]) + 1][1] = kind
ReadValue(s) ==
  /\ Asked(s, "value") /\ Enough(s, 1)
  /\ store' = Skipped(s, 1)
  /\ got' = [got EXCEPT ![s] = Append(@, <<"value", Next1(s)>>)]
  /\ UNCHANGED <<file, exists, written, closed>>
ReadString(s) ==
  /\ Asked(s, "string") /\ Enough(s, 1)
  /\ IF Enough(s, 1 + Next1(s))
     THEN /\ store' = Skipped(s, 1 + Next1(s))
          /\ got' = [got EXCEPT ![s] = Append(@, AsRead(SubSeq(file, store[s].at + 3, store[s].at + 2 + Next1(s))))]
     ELSE store' = Skipped(s, 1) /\ got' = got
  /\ UNCHANGED <<file, exists, written, closed>>

-----------------------------------------------------------------------------
(* stdio writes some of what it holds.                                     *)
Sync(s, n) ==
  /\ file' = file \o SubSeq(store[s].held, 1, n)
  /\ store' = [store EXCEPT ![s].held = SubSeq(@, n + 1, Len(@))]
  /\ UNCHANGED <<exists, written, got, closed>>

(* The process dies, or the disk is full at the end: the kernel unlocks.   *)
Die(s) ==
  /\ IsGood(s)
  /\ store' = [store EXCEPT ![s] = Undef]
  /\ UNCHANGED <<file, exists, written, got, closed>>

BinstoreNext ==
  \/ \E s \in Stores : Reset(s)
  \/ \E s \in Stores : Create(s)
  \/ \E s \in Stores : OpenToRead(s)
  \/ \E to, from \in Stores : MoveStore(to, from)
  \/ \E s \in Stores, item \in Items : WriteItem(s, item)
  \/ \E s \in Stores, tag \in Tags : SetTag(s, tag)
  \/ \E s \in Stores : ReadValue(s)
  \/ \E s \in Stores : ReadString(s)
  \/ \E s \in Stores : \E n \in 1 .. Len(store[s].held) : Sync(s, n)
  \/ \E s \in Stores : Die(s)

BinstoreSpec == BinstoreInit /\ [][BinstoreNext]_binstoreVars

-----------------------------------------------------------------------------
(* Each item comes back as it was written, in its order, whatever strings  *)
(* lie before it; of a string that is empty or holds a NUL what Read makes *)
(* of it comes, and the items behind it are not disturbed.  What a reader  *)
(* is told to be left is there: also when writers die, come and go beside  *)
(* it, or write more than a header can tell.  A writer that closes its     *)
(* file leaves its size and tag in it (binstore.cpp:275-465, 477-587).     *)
IsLost(item) == item[1] = "string" /\ (item[2] = <<>> \/ \E j \in DOMAIN item[2] : item[2][j] = 0)
StoreReadsBack ==
  /\ \A s \in Stores : store[s].om = "read" =>
       /\ Len(got[s]) <= Len(written.items)
       /\ \A i \in 1 .. Len(got[s]) : LET item == written.items[i] IN
            got[s][i] = IF IsLost(item) THEN AsRead(item[2]) ELSE item
       /\ store[s].dataSize > 0 => store[s].at + store[s].dataSize < Len(file)
  /\ closed => LET size == Len(FlattenSeq([i \in DOMAIN written.items |-> Bytes(written.items[i])])) IN
               file # <<>> /\ (size <= SizeLimit => file[1] = serialHeader_t(size, written.tag))
=============================================================================
