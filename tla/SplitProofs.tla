---------------------------- MODULE SplitProofs ----------------------------
(* Proofs about the halves of a socket, for any amount of data. *)
EXTENDS Split, TLAPS

\* The end of the stream the reader knows of is the peer's, the peer's is
\* final, and what the peer sees of this side follows from how far the write
\* half got.
SplitInv ==
    /\ input \in Nat
    /\ EndIsTrue
    /\ stream = "none" <=> writer \in {"taken", "gone"} /\ ~shutdown
    /\ writer \in {"live", "taken", "gone"} /\ shutdown \in BOOLEAN /\ eof \in BOOLEAN
    /\ end = "open" <=> writer = "live" /\ ~shutdown
    /\ AbortIffUnfinished

LEMMA SplitInit == Init => SplitInv
<1> SUFFICES ASSUME Init PROVE SplitInv
    OBVIOUS
<1>1. input \in Nat
    BY DEF Init
<1>2. EndIsTrue
    BY Zenon DEF Init, EndIsTrue
<1>3. AbortIffUnfinished
    BY Zenon DEF Init, AbortIffUnfinished
<1>4. writer = "live" /\ shutdown = FALSE /\ eof = FALSE /\ stream = "some" /\ end = "open"
    BY DEF Init
<1> QED
    BY <1>1, <1>2, <1>3, <1>4, Zenon DEF SplitInv

LEMMA SplitStep == SplitInv /\ [Next]_vars => SplitInv'
<1> SUFFICES ASSUME SplitInv, [Next]_vars PROVE SplitInv'
    OBVIOUS
<1> USE DEF SplitInv, EndIsTrue, AbortIffUnfinished
<1>1. CASE PollAtEof
    BY <1>1 DEF PollAtEof, writeVars, socketVars
<1>2. CASE PollRegister
    BY <1>2 DEF PollRegister, writeVars, socketVars
<1>3. ASSUME NEW room \in BOOLEAN, PollStream(room) PROVE SplitInv'
    BY <1>3 DEF PollStream, EofOf, writeVars
<1>4. CASE ReadDrop
    BY <1>4 DEF ReadDrop, writeVars, socketVars
<1>5. CASE Shutdown
    BY <1>5 DEF Shutdown, readVars, socketVars
<1>6. CASE DropShut
    BY <1>6 DEF DropShut, readVars, socketVars
<1>7. CASE DropTake
    BY <1>7 DEF DropTake, Unfinished, readVars, socketVars
<1>8. CASE DropWake
    BY <1>8 DEF DropWake, socketVars
<1>9. CASE Arrive
    BY <1>9 DEF Arrive, writeVars
<1>10. CASE UNCHANGED vars
    BY <1>10 DEF vars, readVars, writeVars, socketVars
<1> QED
    BY <1>1, <1>2, <1>3, <1>4, <1>5, <1>6, <1>7, <1>8, <1>9, <1>10 DEF Next, Poll

\* The read half (`ReadHalf::poll_read`) reports the end of the stream only if
\* the peer ended it and everything before was read, in every interleaving
\* with the drop of the write half.
THEOREM EndsAreTrue == Spec => []EndIsTrue
<1>1. SplitInv => EndIsTrue
    BY DEF SplitInv
<1> QED
    BY SplitInit, SplitStep, <1>1, PTL DEF Spec

\* The write half aborts the socket on drop exactly if it was not shut down
\* (`WriteHalf::drop`): the peer never sees a quiet end of a stream that was
\* abandoned, and never a reset of one that was finished.
THEOREM AbortsAreTrue == Spec => []AbortIffUnfinished
<1>1. SplitInv => AbortIffUnfinished
    BY DEF SplitInv
<1> QED
    BY SplitInit, SplitStep, <1>1, PTL DEF Spec
=============================================================================
