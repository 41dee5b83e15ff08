---------------------------- MODULE DocumentBuffer ----------------------------
(***************************************************************************)
(* What DocumentsWriter promises of the documents it buffers, however many *)
(* threads add them: a document gets the next number when its thread       *)
(* starts on it; the documents go to the store in the order of their       *)
(* numbers, each as soon as it and all before it are finished; a segment   *)
(* is flushed only when every document is finished, and holds those that   *)
(* did not fail; and until then all of them may be discarded together.     *)
(***************************************************************************)
EXTENDS Naturals, Sequences

CONSTANT Doc        \* the documents, numbers from 1 on

VARIABLES
    buffered,   \* the documents by number, each with its state
    written,    \* how many of them are in the store
    flushed     \* the documents of the segments so far, in order

dbvars == <<buffered, written, flushed>>

Init == buffered = <<>> /\ written = 0 /\ flushed = <<>>

\* How many documents at the start of b are finished
Finished(b) ==
    CHOOSE n \in 0..Len(b) :
        /\ \A i \in 1..n : b[i].state # "busy"
        /\ n < Len(b) => b[n + 1].state = "busy"

Start ==
    /\ \E d \in Doc : buffered' = Append(buffered, [doc |-> d, state |-> "busy"])
    /\ UNCHANGED <<written, flushed>>

\* A document is finished, or has failed
Finish(i, state) ==
    /\ buffered[i].state = "busy"
    /\ buffered' = [buffered EXCEPT ![i].state = state]
    /\ written' = Finished(buffered')
    /\ UNCHANGED flushed

NoDoc == 0

\* The documents of a sequence, in order
Kept(seq) == LET IsDoc(d) == d # NoDoc IN SelectSeq(seq, IsDoc)

Flush ==
    /\ buffered # <<>> /\ \A i \in 1..Len(buffered) : buffered[i].state # "busy"
    /\ flushed' = flushed \o Kept([i \in 1..Len(buffered) |->
                                     IF buffered[i].state = "done"
                                     THEN buffered[i].doc ELSE NoDoc])
    /\ buffered' = <<>> /\ written' = 0

Discard == buffered' = <<>> /\ written' = 0 /\ UNCHANGED flushed

\* deleteAll: the segments go too
Clear == buffered' = <<>> /\ written' = 0 /\ flushed' = <<>>

Next ==
    \/ Start \/ Flush \/ Discard \/ Clear
    \/ \E i \in 1..Len(buffered), s \in {"done", "failed"} : Finish(i, s)

Spec == Init /\ [][Next]_dbvars
=============================================================================
