--------------------------- MODULE MCHistoryCache ---------------------------
(***************************************************************************)
(* A small repository for TLC:                                             *)
(*                                                                         *)
(*     c1 <--- c2 <--- m          m merges the side branch x into c2       *)
(*      ^              |                                                   *)
(*      +----- x <-----+                                                   *)
(*                                                                         *)
(* HEAD moving between c2 and x is a checkout or a force-push, from c1 to  *)
(* c2 to m a branch that grows.                                            *)
(***************************************************************************)
EXTENDS HistoryCache, TLC

CONSTANTS c1, c2, x, m, cfg1, cfg2, p1, p2

MCCommit == {c1, c2, x, m}
MCBranch == {c1, c2, m}

FirstParent == (c1 :> {}) @@ (c2 :> {c1}) @@ (x :> {c1}) @@ (m :> {c2})
AllParents  == [FirstParent EXCEPT ![m] = {c2, x}]
MCParents   ==
  [full \in BOOLEAN |-> [c \in Commit |->
     (IF full THEN AllParents ELSE FirstParent)[c] \cap Commit]]

Ages(old) == [c \in Commit |-> CASE c = c1 -> old
                                 [] c = m  -> 3
                                 [] OTHER  -> 2]
MonotoneTimes == Ages(1)
\* c2 was committed on a machine whose clock was behind.
SkewedTimes   == [Ages(2) EXCEPT ![c2] = 1]

Opt(full, as_of) == [full_history |-> full, long_window_secs |-> 3, as_of |-> as_of]
FirstParentOnly == {Opt(FALSE, NoTime)}
AllOptions == {Opt(FALSE, NoTime), Opt(TRUE, NoTime), Opt(FALSE, 2)}

\* include_merges is off, so m is walked but not recorded; under the second
\* configuration the mailmap makes the author of c2 a bot.
MCRecorded ==
  [o \in Option |-> [c \in Config |->
     Commit \ IF c = cfg2 THEN {c2, m} ELSE {m}]]

\* Deepened once below c2, then unshallowed.
MCGraft == (0 :> {c2}) @@ (1 :> {c1}) @@ (2 :> {})
\* Unshallowed at once.
MCUnshallow == (0 :> {c2}) @@ (1 :> {})
\* A complete clone.
NoGraft == (0 :> {})

Enabled      == {[enabled |-> TRUE, clear |-> FALSE]}
AllConfigs   == [enabled : BOOLEAN, clear : BOOLEAN]

MCClock == {3, 4, 5}
=============================================================================
