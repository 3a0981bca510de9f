----------------------- MODULE MC_PrioritySemaphore -----------------------
(* Instantiation of PrioritySemaphore for TLC.                             *)
EXTENDS PrioritySemaphore, TLC

CONSTANTS p1, p2, p3, p4, p5

\* Four goroutines: with capacity 1 three of them queue, so heap.Pop's
\* down-sift compares both children and heap.Remove can move a request.
MCProcs == {p1, p2, p3, p4}

\* Five goroutines: four queue behind one holder, the first size at which
\* heap.Pop's down-sift has a right child to compare.
MCProcs5 == {p1, p2, p3, p4, p5}

\* Only p1 and p2 may be canceled in the five-goroutine run.
MCCancelers5 == {p1, p2}

\* Goroutines are interchangeable within the cancelable and the other ones.
MCSymmetry5 == Permutations(MCCancelers5) \cup Permutations(MCProcs5 \ MCCancelers5)

\* Goroutines are interchangeable: each picks its weight per call.
MCSymmetry == Permutations(MCProcs)
====
