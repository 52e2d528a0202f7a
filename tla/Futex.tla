------------------------------- MODULE Futex -------------------------------
(***************************************************************************)
(* What the runtime uses of the operating system's address-keyed waiting   *)
(* (futex on Linux, WaitOnAddress on Windows): a thread sleeps only if the *)
(* word still holds the value it compared, and a wake releases threads     *)
(* that are asleep at that moment.  A wake finding nobody asleep is lost.  *)
(***************************************************************************)

\* Would a wait on a word holding `word' and compared with `expected' sleep?
FutexSleeps(word, expected) == word = expected

\* The sets of threads one wake-one call may release.
WakeOne(sleepers) == IF sleepers = {} THEN {{}} ELSE {{s} : s \in sleepers}
=============================================================================
