--------------------------- MODULE PyClientProofs ---------------------------
(***************************************************************************)
(* The safety properties of PyClient, for any set of loops.                *)
(***************************************************************************)
EXTENDS PyClient, TLAPS

LEMMA TypeInit == Init => TypeOK
BY ClientConstants DEF Init, TypeOK, Loops, Places

LEMMA TypeStep == TypeOK /\ [Next]_vars => TypeOK'
<1> SUFFICES ASSUME TypeOK, [Next]_vars PROVE TypeOK'
  OBVIOUS
<1> USE DEF TypeOK, Goto, Loops, Places, worldVars
<1>1. ASSUME NEW t \in Publishers, Begin(t) PROVE TypeOK'
  <2>1. Commands[t] \in Nat /\ Commands[t] > 0
    BY ClientConstants
  <2>2. \A r \in RepoLoops : r # t
    BY ClientConstants
  <2>3. /\ todo' = [todo EXCEPT ![t] = Commands[t]]
        /\ pc' = [pc EXCEPT ![t] = "testing"]
        /\ fresh' = fresh \ {t}
        /\ UNCHANGED <<up, resolvable, disturbed, connected>>
    BY <1>1 DEF Begin
  <2>4. \A s \in Publishers :
          /\ todo'[s] \in 0 .. Commands[s]
          /\ pc'[s] \in {"testing", "calling"} => todo'[s] > 0
    BY <2>1, <2>3
  <2>5. QED  BY <2>2, <2>3, <2>4
<1>2. ASSUME NEW t \in Publishers, Call(t) PROVE TypeOK'
  <2>1. CASE connected /\ up
    <3>1. todo[t] \in Nat /\ todo[t] > 0 /\ Commands[t] \in Nat
      BY <1>2, ClientConstants DEF Call
    <3>2. todo' = [todo EXCEPT ![t] = todo[t] - 1]
      BY <1>2, <2>1 DEF Call
    <3>3. QED  BY <1>2, <2>1, <3>1, <3>2, ClientConstants DEF Call
  <2>2. CASE ~(connected /\ up)
    BY <1>2, <2>2, ClientConstants DEF Call
  <2>3. QED  BY <2>1, <2>2
<1>3. ASSUME NEW t \in Publishers, Test(t) \/ Recover(t) \/ Ping(t)
      PROVE  TypeOK'
  BY <1>3, ClientConstants DEF Test, Recover, Ping
<1>4. ASSUME NEW t \in Publishers, Connect(t) \/ Greet(t) \/ Drop(t)
      PROVE  TypeOK'
  BY <1>4, ClientConstants DEF Connect, Greet, Drop
<1>5. ASSUME NEW t \in RepoLoops, Scan(t) \/ WriteRepos(t) PROVE TypeOK'
  BY <1>5, ClientConstants DEF Scan, WriteRepos
<1>6. CASE RedisTurns \/ ResolverTurns \/ UNCHANGED vars
  BY <1>6 DEF RedisTurns, ResolverTurns, vars
<1>7. QED
  BY <1>1, <1>2, <1>3, <1>4, <1>5, <1>6 DEF Next, Publisher, RepoLoop

(* In every state of the daemon its variables have their types, and a loop  *)
(* never counts a command more than its publication takes.                  *)
THEOREM TypeCorrect == Spec => []TypeOK
BY TypeInit, TypeStep, PTL DEF Spec

-----------------------------------------------------------------------------
(* A loop about to use self._r ends if it finds it cleared.  SomeLoopSafe   *)
(* names a loop that will not: whoever cleared the attribute is back in its *)
(* wait, and whoever set it keeps all of them safe.                         *)

Using(t) == pc[t] \in {"calling", "pinging", "greeting"}
Safe(t) == pc[t] # "ended" /\ (~connected => ~Using(t))
SomeLoopSafe == \E t \in Publishers : Safe(t)

LEMMA SafeStep == TypeOK /\ SomeLoopSafe /\ [Next]_vars => SomeLoopSafe'
<1> SUFFICES ASSUME TypeOK, [Next]_vars, NEW s \in Publishers, Safe(s)
             PROVE  \E t \in Publishers : Safe(t)'
  BY DEF SomeLoopSafe
<1> USE DEF TypeOK, Goto, Loops, worldVars, Safe, Using
<1>1. ASSUME NEW t \in Publishers, Begin(t) \/ Test(t) \/ Call(t) PROVE Safe(s)'
  BY <1>1 DEF Begin, Test, Call
<1>2. ASSUME NEW t \in Publishers, Recover(t) \/ Ping(t) \/ Greet(t)
      PROVE  Safe(s)'
  BY <1>2 DEF Recover, Ping, Greet
<1>3. ASSUME NEW t \in Publishers, Connect(t) \/ Drop(t) PROVE Safe(t)'
  BY <1>3 DEF Connect, Drop
<1>4. ASSUME NEW t \in RepoLoops, Scan(t) \/ WriteRepos(t) PROVE Safe(s)'
  BY <1>4, ClientConstants DEF Scan, WriteRepos
<1>5. CASE RedisTurns \/ ResolverTurns \/ UNCHANGED vars
  BY <1>5 DEF RedisTurns, ResolverTurns, vars
<1>6. QED
  BY <1>1, <1>2, <1>3, <1>4, <1>5 DEF Next, Publisher, RepoLoop

(* However the loops race for self._r, they never all end: one that         *)
(* reconnects is left.                                                      *)
THEOREM NeverSilent == Spec => []SomeLoopRecovers
<1>1. Init => SomeLoopSafe
  BY ClientConstants DEF Init, SomeLoopSafe, Safe, Using, Loops
<1>2. SomeLoopSafe => SomeLoopRecovers
  BY DEF SomeLoopSafe, Safe, SomeLoopRecovers
<1>3. QED  BY <1>1, <1>2, SafeStep, TypeCorrect, PTL DEF Spec

-----------------------------------------------------------------------------
(* Without an outage no loop ever leaves the straight path.                 *)

StraightPath ==
    ~disturbed =>
        /\ up /\ resolvable /\ connected
        /\ \A t \in Loops : pc[t] \in {"waiting", "testing", "calling", "writing"}

LEMMA StraightStep == TypeOK /\ StraightPath /\ [Next]_vars => StraightPath'
<1> SUFFICES ASSUME TypeOK, StraightPath, [Next]_vars PROVE StraightPath'
  OBVIOUS
<1> USE DEF TypeOK, Goto, Loops, worldVars, StraightPath
<1>1. ASSUME NEW t \in Publishers, Begin(t) \/ Test(t) \/ Call(t)
      PROVE  StraightPath'
  BY <1>1 DEF Begin, Test, Call
<1>2. ASSUME NEW t \in Publishers,
             \/ Recover(t) \/ Ping(t) \/ Connect(t) \/ Greet(t) \/ Drop(t)
      PROVE  StraightPath'
  BY <1>2 DEF Recover, Ping, Connect, Greet, Drop
<1>3. ASSUME NEW t \in RepoLoops, Scan(t) \/ WriteRepos(t) PROVE StraightPath'
  BY <1>3 DEF Scan, WriteRepos
<1>4. CASE RedisTurns \/ ResolverTurns \/ UNCHANGED vars
  BY <1>4 DEF RedisTurns, ResolverTurns, vars
<1>5. QED
  BY <1>1, <1>2, <1>3, <1>4 DEF Next, Publisher, RepoLoop

(* The race for self._r needs an outage: while Redis and its name are there *)
(* every loop runs on the connection the daemon started with.               *)
THEOREM UndisturbedHolds == Spec => []UndisturbedRuns
<1>1. Init => StraightPath
  BY DEF Init, StraightPath
<1>2. StraightPath => UndisturbedRuns
  BY DEF StraightPath, UndisturbedRuns
<1>3. QED  BY <1>1, <1>2, StraightStep, TypeCorrect, PTL DEF Spec
=============================================================================
