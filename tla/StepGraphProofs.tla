---------------------------- MODULE StepGraphProofs ----------------------------
(***************************************************************************)
(* What holds of `upstream` and `downstream` on every graph of steps.      *)
(***************************************************************************)
EXTENDS StepGraph, TLAPS

\* What lies downstream of S holds S, and nothing outside it waits on it.
LEMMA DownstreamClosed ==
    ASSUME NEW S \in SUBSET Steps
    PROVE  S \subseteq Downstream(S) /\ ClosedForward(Downstream(S))
PROOF
<1>1. S \subseteq Downstream(S)
  BY DEF Downstream
<1>2. ASSUME NEW s \in Steps, Needs[s] \cap Downstream(S) # {}
      PROVE  s \in Downstream(S)
  <2>1. PICK n \in Needs[s] : n \in Downstream(S)
    BY <1>2
  <2>2. ASSUME NEW C \in SUBSET Steps, S \subseteq C, ClosedForward(C)
        PROVE  s \in C
    <3>1. n \in C
      BY <2>1, <2>2 DEF Downstream
    <3> QED
      BY <2>2, <3>1 DEF ClosedForward
  <2> QED
    BY <2>2 DEF Downstream
<1> QED
  BY <1>1, <1>2 DEF ClosedForward

\* The two directions agree: whoever waits for p lies downstream of p.
LEMMA UpstreamIsDownstream ==
    ASSUME NEW g \in Steps, NEW p \in Upstream({g})
    PROVE  g \in Downstream({p})
PROOF
<1>1. ASSUME NEW C \in SUBSET Steps, {p} \subseteq C, ClosedForward(C), g \notin C
      PROVE  FALSE
  <2>1. ClosedBackward(Steps \ C)
    BY <1>1, NeedsAssumption DEF ClosedBackward, ClosedForward
  <2>2. p \in Steps \ C
    BY <1>1, <2>1 DEF Upstream
  <2> QED
    BY <1>1, <2>2
<1> QED
  BY <1>1 DEF Downstream

\* What waits for p has p before it, unless it is p.
LEMMA DownstreamIsUpstream ==
    ASSUME NEW p \in Steps, NEW g \in Downstream({p}), g # p
    PROVE  p \in Upstream({g})
PROOF
<1>1. ASSUME NEW C \in SUBSET Steps, {g} \subseteq C, ClosedBackward(C), p \notin C
      PROVE  FALSE
  <2>1. ClosedForward(Steps \ C)
    BY <1>1, NeedsAssumption DEF ClosedBackward, ClosedForward
  <2>2. {p} \subseteq Steps \ C
    BY <1>1
  <2>3. g \in Steps \ C
    BY <2>1, <2>2 DEF Downstream
  <2> QED
    BY <1>1, <2>3
<1> QED
  BY <1>1 DEF Upstream

LEMMA DownstreamTransitive ==
    ASSUME NEW a \in Steps, NEW b \in Downstream({a}), NEW c \in Downstream({b})
    PROVE  c \in Downstream({a})
PROOF
<1>1. {b} \subseteq Downstream({a}) /\ ClosedForward(Downstream({a}))
  BY DownstreamClosed
<1>2. Downstream({a}) \in SUBSET Steps
  BY DEF Downstream
<1> QED
  BY <1>1, <1>2 DEF Downstream

\* What holds all that a step needs, and all that each of its own needs, holds
\* all that is before the step.
LEMMA UpstreamWithin ==
    ASSUME NEW s \in Steps, NEW C \in SUBSET Steps, Needs[s] \subseteq C, ClosedBackward(C)
    PROVE  Upstream({s}) \subseteq C
PROOF
<1>1. C \cup {s} \in SUBSET Steps /\ {s} \subseteq C \cup {s} /\ ClosedBackward(C \cup {s})
  BY DEF ClosedBackward
<1> QED
  BY <1>1 DEF Upstream

\* What is sent back is downstream of the plan, the gate included.
LEMMA PathDownstream ==
    ASSUME NEW gate \in Steps, NEW plan \in Upstream({gate})
    PROVE  PathBack(plan, gate) \subseteq Downstream({plan}) /\ gate \in PathBack(plan, gate)
BY UpstreamIsDownstream DEF PathBack
=============================================================================
