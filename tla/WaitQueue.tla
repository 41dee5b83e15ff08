------------------------------ MODULE WaitQueue ------------------------------
(***************************************************************************)
(* DocumentsWriter's WaitQueue: a ring that holds the documents that were  *)
(* finished before documents with smaller numbers, and lets them go to the *)
(* doc store in the order of their numbers.                                *)
(*                                                                         *)
(* A queue is a record with the fields of the class; slots are numbered    *)
(* from 0.  A document is a positive number that stands for its content;   *)
(* SkipDoc is the one skipDocWriter that every failed document shares.     *)
(***************************************************************************)
EXTENDS Integers, FiniteSets, Sequences

NoDoc   == 0        \* an empty slot
SkipDoc == -1

SizeInBytes(d) == IF d = SkipDoc THEN 0 ELSE 1

\* MiscUtils::getNextSize
GetNextSize(target) == target \div 8 + (IF target < 9 THEN 3 ELSE 6) + target

Size(q) == Cardinality(DOMAIN q.waiting)

NewQueue(size) ==
    [waiting |-> [i \in 0..size - 1 |-> NoDoc], nextWriteDocID |-> 0,
     nextWriteLoc |-> 0, numWaiting |-> 0, waitingBytes |-> 0]

\* The slot of the document that is gap numbers after the next one
Slot(q, gap) ==
    LET loc == q.nextWriteLoc + gap
    IN  IF loc >= Size(q) THEN loc - Size(q) ELSE loc

\* The documents that wait right behind the next one, in order
Behind(q) ==
    LET full(k) == \A j \in 1..k : q.waiting[Slot(q, j)] # NoDoc
        n == CHOOSE k \in 0..Size(q) - 1 :
                full(k) /\ (k = Size(q) - 1 \/ ~full(k + 1))
    IN  [j \in 1..n |-> q.waiting[Slot(q, j)]]

\* writeDocument: taken documents are off the ring, written of them, with
\* the one that was added, are in the store
Advance(q, taken, written) ==
    LET slots == {Slot(q, j) : j \in 1..taken}
    IN  [waiting |-> [i \in DOMAIN q.waiting |->
                        IF i \in slots THEN NoDoc ELSE q.waiting[i]],
         nextWriteDocID |-> q.nextWriteDocID + written,
         nextWriteLoc   |-> Slot(q, written),
         numWaiting     |-> q.numWaiting - taken,
         waitingBytes   |-> q.waitingBytes
            - Cardinality({i \in slots : q.waiting[i] # SkipDoc})]

\* Mutant: the ring is copied as it is, not from nextWriteLoc on
GrowUnrotated(q, gap) ==
    IF gap < Size(q) THEN q
    ELSE [q EXCEPT !.waiting = [i \in 0..GetNextSize(gap) - 1 |->
                                  IF i < Size(q) THEN q.waiting[i] ELSE NoDoc],
                   !.nextWriteLoc = 0]

\* The ring grows to hold a document gap numbers ahead, and is turned so
\* that the next document is at its start
Grow(q, gap) ==
    IF gap < Size(q) THEN q
    ELSE [q EXCEPT !.waiting = [i \in 0..GetNextSize(gap) - 1 |->
                                  IF i < Size(q) THEN q.waiting[Slot(q, i)]
                                  ELSE NoDoc],
                   !.nextWriteLoc = 0]

\* add, of a document that is not the next one
Park(q, id, d) ==
    LET gap == id - q.nextWriteDocID
        g   == Grow(q, gap)
    IN  [g EXCEPT !.waiting[Slot(g, gap)] = d,
                  !.numWaiting = @ + 1,
                  !.waitingBytes = @ + SizeInBytes(d)]

\* add, when every write succeeds, and the documents it writes
Added(q, id, d) ==
    IF id = q.nextWriteDocID
    THEN [queue |-> Advance(q, Len(Behind(q)), Len(Behind(q)) + 1),
          out   |-> <<d>> \o Behind(q)]
    ELSE [queue |-> Park(q, id, d), out |-> <<>>]

\* add, when the finish of a document throws, at any document but SkipDoc,
\* whose finish does nothing
AddFailures(q, id, d) ==
    {[queue |-> Advance(q, n, n), out |-> SubSeq(<<d>> \o Behind(q), 1, n)] :
        n \in {k \in 0..Len(Behind(q)) :
                 /\ id = q.nextWriteDocID
                 /\ (<<d>> \o Behind(q))[k + 1] # SkipDoc}}

\* abort
Aborted(q) ==
    [q EXCEPT !.waiting = [i \in DOMAIN q.waiting |-> NoDoc],
              !.numWaiting = 0, !.waitingBytes = 0]

\* reset: nextWriteLoc stays where it is
Reset(q) == [q EXCEPT !.nextWriteDocID = 0]

\* Where the document with a number is in the ring
WaitingDoc(q, id) ==
    IF id - q.nextWriteDocID \in 1..Size(q) - 1
    THEN q.waiting[Slot(q, id - q.nextWriteDocID)]
    ELSE NoDoc
=============================================================================
