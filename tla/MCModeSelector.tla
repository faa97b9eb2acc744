--------------------------- MODULE MCModeSelector ---------------------------
(* Environments and feature vectors for model checking ModeSelector.         *)
EXTENDS ModeSelector

CONSTANTS t1, t2

AllEnough == {"frees", "bytes", "mapped", "calls256", "calls512"}

\* Windows that ask for one mode each, with the expected gain.
Remote == [Quiet EXCEPT !.remote = 3, !.enough = AllEnough]
Large  == [Quiet EXCEPT !.large = 3, !.enough = AllEnough]
Slow   == [Quiet EXCEPT !.slow = 3, !.enough = AllEnough]
Frag   == [Quiet EXCEPT !.entropy = TRUE, !.frag = 3, !.enough = AllEnough]
Cached == [Quiet EXCEPT !.cache = 3, !.enough = AllEnough]
Unsafe == [Quiet EXCEPT !.safety = TRUE]
Tight  == [Quiet EXCEPT !.mapped = 2, !.large = 1, !.cache = 3, !.enough = AllEnough]

\* Windows without the expected gain: a rule applies but the ratio is too low, or memory
\* pressure is the only signal, or there is none.
Weak    == [Quiet EXCEPT !.remote = 2, !.enough = AllEnough]
Pressed == [Quiet EXCEPT !.mapped = 2, !.enough = AllEnough]

\* Windows that two rules apply to, and one with a high ratio of too few frees.
RemotePressed == [Remote EXCEPT !.mapped = 2]
LargePressed  == [Large EXCEPT !.mapped = 2]
WeakSlow      == [Slow EXCEPT !.remote = 2]
FewFrees      == [Quiet EXCEPT !.remote = 3]

AllWindows ==
  {Remote, Large, Slow, Frag, Cached, Unsafe, Tight, Weak, Pressed, Quiet,
   RemotePressed, LargePressed, WeakSlow, FewFrees}
TwoStrong == {Remote, Large}

Env(mode, selector, debug) == [mode |-> mode, selector |-> selector, debug |-> debug]
RuleEnvs == {Env("auto", "rule", FALSE)}
MixedEnvs == {Env("auto", "rule", FALSE), Env("auto", "fixed", FALSE),
              Env("CompactRSS", "model", TRUE), Env("other", "manual", FALSE)}

TwoModes == {"Balanced", "CompactRSS"}
NoModes == {}
OneThread == {t1}
TwoThreads == {t1, t2}
=============================================================================
