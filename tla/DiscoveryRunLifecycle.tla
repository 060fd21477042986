------------------------- MODULE DiscoveryRunLifecycle -------------------------
(***************************************************************************)
(* What the Discovery coordinator promises of the runs of a programme, with *)
(* no clock, no outbox, no wakes and no tokens: the order in which a run    *)
(* goes through its phases, that the programme has one run in flight, and   *)
(* that a collector starts only for a run that was claimed.                 *)
(***************************************************************************)

CONSTANT Runs  \* everything that may become a run: slots and manual requests

VARIABLES
    phase,   \* phase[r], where run r is in its life
    started  \* the runs for which a collector was started

vars == <<phase, started>>

Phases == {"absent", "waiting", "parked", "active", "stopping", "closed"}

\* The phases a run may be in after one step, by the phase it is in.  A parked
\* run waits again only when it is promoted; a closed one is closed for good.
After(p) ==
    CASE p = "absent" -> {"absent", "waiting", "parked"}
      [] p = "waiting" -> {"waiting", "parked", "active", "closed"}
      [] p = "parked" -> {"parked", "waiting", "closed"}
      [] p = "active" -> {"active", "stopping", "closed"}
      [] p = "stopping" -> {"stopping", "closed"}
      [] OTHER -> {"closed"}

InFlight(ph) == {r \in Runs : ph[r] \in {"active", "stopping"}}

AtMostOne(S) == \A a, b \in S : a = b

Init ==
    /\ phase = [r \in Runs |-> "absent"]
    /\ started = {}

\* One transaction may move several runs: a publication closes those that wait
\* and adds one, the end of a run promotes the parked one over the waiting one.
\* A run starts only when none was in flight before the transaction.
Advance ==
    /\ phase' \in [Runs -> Phases]
    /\ \A r \in Runs : phase'[r] \in After(phase[r])
    /\ AtMostOne(InFlight(phase'))
    /\ AtMostOne({r \in Runs : phase'[r] = "waiting"})
    /\ AtMostOne({r \in Runs : phase'[r] = "parked"})
    /\ InFlight(phase') \subseteq InFlight(phase) \/ InFlight(phase) = {}
    /\ UNCHANGED started

\* The collector is told to start for a run that was claimed, at most once; the
\* run may have been asked to stop, or have ended, since.
StartCollector(r) ==
    /\ phase[r] \in {"active", "stopping", "closed"}
    /\ started' = started \cup {r}
    /\ UNCHANGED phase

Next == Advance \/ \E r \in Runs : StartCollector(r)

Spec == Init /\ [][Next]_vars
================================================================================
