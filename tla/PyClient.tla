------------------------------ MODULE PyClient ------------------------------
(***************************************************************************)
(* The client daemon's loops (kpidash_client/daemon.py) over the one       *)
(* RedisClient they share (kpidash_client/redis_client.py).  Each loop is  *)
(* a thread that publishes, and reconnects when it cannot; nothing locks   *)
(* the attribute self._r that all of them test, call, replace and clear.   *)
(* Threads, Redis and the resolver of its address interleave at every      *)
(* access to self._r.                                                      *)
(***************************************************************************)
EXTENDS Integers

CONSTANTS
    Publishers,   \* the loops that publish through RedisClient._cmd
    RepoLoops,    \* _repo_loop: uses self._r itself and never reconnects
    CatchAll,     \* the publishers that catch Exception as well: _net_loop
    Commands      \* Commands[t]: how many _cmd calls a publication takes

Loops == Publishers \cup RepoLoops

ASSUME ClientConstants ==
    /\ Publishers # {} /\ Publishers \cap RepoLoops = {}
    /\ CatchAll \subseteq Publishers
    /\ Commands \in [Publishers -> Nat \ {0}]

VARIABLES
    up,          \* Redis answers
    resolvable,  \* resolve_redis_endpoint finds its address
    connected,   \* self._r is not None
    pc,          \* pc[t]: where loop t is
    todo,        \* todo[t]: _cmd calls left of the publication in hand
    fresh,       \* loops whose latest publication went through
    disturbed    \* Redis or the resolver has failed at some moment

worldVars == <<up, resolvable, disturbed>>
vars == <<worldVars, connected, pc, todo, fresh>>

Goto(t, place) == pc' = [pc EXCEPT ![t] = place]

(* Mutant: the loops are started without a connection. *)
InitUnconnected ==
    /\ up \in BOOLEAN /\ resolvable \in BOOLEAN
    /\ disturbed = ~(up /\ resolvable)
    /\ connected = FALSE
    /\ pc = [t \in Loops |-> "waiting"]
    /\ todo = [t \in Publishers |-> 0]
    /\ fresh = {}

(* run_daemon connects, and starts the loops whatever comes of it. *)
Init ==
    /\ up \in BOOLEAN /\ resolvable \in BOOLEAN
    /\ disturbed = ~(up /\ resolvable)
    /\ connected = (up /\ resolvable)
    /\ pc = [t \in Loops |-> "waiting"]
    /\ todo = [t \in Publishers |-> 0]
    /\ fresh = {}

-----------------------------------------------------------------------------
(* Redis and khlenv. *)

RedisTurns ==
    /\ up' = ~up
    /\ disturbed' = TRUE
    /\ UNCHANGED <<resolvable, connected, pc, todo, fresh>>

ResolverTurns ==
    /\ resolvable' = ~resolvable
    /\ disturbed' = TRUE
    /\ UNCHANGED <<up, connected, pc, todo, fresh>>

-----------------------------------------------------------------------------
(* A publication: one _cmd after the other.                                 *)

Begin(t) ==
    /\ pc[t] = "waiting"
    /\ Goto(t, "testing")
    /\ todo' = [todo EXCEPT ![t] = Commands[t]]
    /\ fresh' = fresh \ {t}
    /\ UNCHANGED <<worldVars, connected>>

(* `if not self._r` of _cmd. *)
Test(t) ==
    /\ pc[t] = "testing"
    /\ Goto(t, IF connected THEN "calling" ELSE "recovering")
    /\ UNCHANGED <<worldVars, connected, todo, fresh>>

(* Mutant: the last command is sent once more. *)
CallOneTooMany(t) ==
    /\ pc[t] = "calling" /\ connected /\ up
    /\ todo' = [todo EXCEPT ![t] = IF @ = 0 THEN 0 ELSE @ - 1]
    /\ IF todo[t] = 0
       THEN Goto(t, "waiting") /\ fresh' = fresh \cup {t}
       ELSE Goto(t, "testing") /\ UNCHANGED fresh
    /\ UNCHANGED <<worldVars, connected>>

(* getattr(self._r, method) reads the attribute again.  If another loop has *)
(* cleared it the error is no RedisClientError, and most loops end by it.   *)
Call(t) ==
    /\ pc[t] = "calling"
    /\ \/ /\ connected /\ up
          /\ todo' = [todo EXCEPT ![t] = @ - 1]
          /\ IF todo'[t] = 0
             THEN Goto(t, "waiting") /\ fresh' = fresh \cup {t}
             ELSE Goto(t, "testing") /\ UNCHANGED fresh
       \/ /\ connected /\ ~up
          /\ Goto(t, "recovering")
          /\ UNCHANGED <<todo, fresh>>
       \/ /\ ~connected
          /\ Goto(t, IF t \in CatchAll THEN "waiting" ELSE "ended")
          /\ UNCHANGED <<todo, fresh>>
    /\ UNCHANGED <<worldVars, connected>>

-----------------------------------------------------------------------------
(* reconnect_on_failure.  It runs inside the handler of RedisClientError,   *)
(* where no loop catches anything else.                                     *)

(* `if self._r`. *)
Recover(t) ==
    /\ pc[t] = "recovering"
    /\ Goto(t, IF connected THEN "pinging" ELSE "connecting")
    /\ UNCHANGED <<worldVars, connected, todo, fresh>>

(* `self._r.ping()`, which reads it again. *)
Ping(t) ==
    /\ pc[t] = "pinging"
    /\ Goto(t, IF ~connected THEN "ended"
               ELSE IF up THEN "waiting" ELSE "connecting")
    /\ UNCHANGED <<worldVars, connected, todo, fresh>>

(* Mutant: the new object is never assigned to self._r. *)
ConnectClears(t) ==
    /\ pc[t] = "connecting"
    /\ connected' = FALSE
    /\ Goto(t, "waiting")
    /\ UNCHANGED <<worldVars, todo, fresh>>

(* connect: self._r is assigned before the ping that tries it. *)
Connect(t) ==
    /\ pc[t] = "connecting"
    /\ connected' = resolvable
    /\ Goto(t, IF resolvable THEN "greeting" ELSE "waiting")
    /\ UNCHANGED <<worldVars, todo, fresh>>

Greet(t) ==
    /\ pc[t] = "greeting"
    /\ Goto(t, IF ~connected THEN "ended"
               ELSE IF up THEN "waiting" ELSE "dropping")
    /\ UNCHANGED <<worldVars, connected, todo, fresh>>

(* Mutant: the failure of connect's ping is not turned into a               *)
(* RedisClientError, and ends the loop.                                     *)
DropEscapes(t) ==
    /\ pc[t] = "dropping"
    /\ connected' = FALSE
    /\ Goto(t, "ended")
    /\ UNCHANGED <<worldVars, todo, fresh>>

(* The handler clears self._r, whoever has assigned it meanwhile. *)
Drop(t) ==
    /\ pc[t] = "dropping"
    /\ connected' = FALSE
    /\ Goto(t, "waiting")
    /\ UNCHANGED <<worldVars, todo, fresh>>

-----------------------------------------------------------------------------
(* write_repos: every error is caught, and left to the other loops. *)

Scan(t) ==
    /\ pc[t] = "waiting"
    /\ Goto(t, "writing")
    /\ fresh' = fresh \ {t}
    /\ UNCHANGED <<worldVars, connected, todo>>

WriteRepos(t) ==
    /\ pc[t] = "writing"
    /\ Goto(t, "waiting")
    /\ fresh' = IF connected /\ up THEN fresh \cup {t} ELSE fresh
    /\ UNCHANGED <<worldVars, connected, todo>>

Publisher(t) ==
    \/ Begin(t) \/ Test(t) \/ Call(t)
    \/ Recover(t) \/ Ping(t) \/ Connect(t) \/ Greet(t) \/ Drop(t)
RepoLoop(t) == Scan(t) \/ WriteRepos(t)

Next ==
    \/ RedisTurns \/ ResolverTurns
    \/ \E t \in Publishers : Publisher(t)
    \/ \E t \in RepoLoops : RepoLoop(t)

Spec == Init /\ [][Next]_vars

(* Every thread runs: a wait has an interval, a socket call a timeout. *)
FairSpec ==
    /\ Spec
    /\ \A t \in Publishers : WF_vars(Publisher(t))
    /\ \A t \in RepoLoops : WF_vars(RepoLoop(t))

-----------------------------------------------------------------------------
(* Properties. *)

Places == {"waiting", "testing", "calling", "recovering", "pinging",
           "connecting", "greeting", "dropping", "ended"}

(* Every variable has its type, and only a publication in hand has commands *)
(* left to send.                                                            *)
TypeOK ==
    /\ up \in BOOLEAN /\ resolvable \in BOOLEAN /\ disturbed \in BOOLEAN
    /\ connected \in BOOLEAN
    /\ DOMAIN pc = Loops
    /\ \A t \in Publishers : pc[t] \in Places
    /\ \A t \in RepoLoops : pc[t] \in {"waiting", "writing"}
    /\ DOMAIN todo = Publishers
    /\ \A t \in Publishers :
        /\ todo[t] \in 0 .. Commands[t]
        /\ pc[t] \in {"testing", "calling"} => todo[t] > 0
    /\ fresh \subseteq Loops

(* A loop that reconnects is always left: a loop ends only by another's     *)
(* clearing self._r under it, and the loop that cleared it last survives.   *)
(* So the daemon never falls silent as a whole.                             *)
SomeLoopRecovers == \E t \in Publishers : pc[t] # "ended"

(* Without an outage nothing disturbs the loops: none ends, none is without *)
(* a connection.                                                            *)
UndisturbedRuns ==
    ~disturbed => connected /\ \A t \in Loops : pc[t] # "ended"

(* Once Redis and the resolver stay up, every loop that has not ended       *)
(* publishes again and again, the repository loop too, which depends on the *)
(* others for its connection; clearing a good connection by a late failure  *)
(* heals.                                                                   *)
PublishingResumes ==
    <>[](up /\ resolvable) =>
        \A t \in Loops : <>[](pc[t] = "ended") \/ []<>(t \in fresh)
=============================================================================
