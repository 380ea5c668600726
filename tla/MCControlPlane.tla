--------------------------- MODULE MCControlPlane ---------------------------
(***************************************************************************)
(* Instances for TLC of the services around the scans: the scheduler, the  *)
(* health monitor, logins and sessions, and the login limiter.  They share *)
(* no variable; a behaviour takes the steps of one of them, so that their  *)
(* state spaces add up.                                                    *)
(***************************************************************************)
EXTENDS Scheduler, NodeHealth, AuthSessions, LoginAdmission, TLC

VARIABLE focus

all == <<schedVars, healthVars, authVars, admissionVars>>

Services == {"scheduler", "health", "sessions", "limiter"}

ControlInit ==
    /\ focus \in Services
    /\ focus # "scheduler" => rows = [s \in Schedules |-> NoRow]
    /\ focus # "health" => registry = [n \in Monitored |-> "new"] /\ answering = {}
    /\ SchedInit /\ HealthInit /\ AuthInit /\ AdmissionInit

ControlNext ==
    /\ UNCHANGED focus
    /\ \/ focus = "scheduler" /\ SchedNext /\ UNCHANGED <<healthVars, authVars, admissionVars>>
       \/ focus = "health"    /\ HealthNext /\ UNCHANGED <<schedVars, authVars, admissionVars>>
       \/ focus = "sessions"  /\ AuthNext /\ UNCHANGED <<schedVars, healthVars, admissionVars>>
       \/ focus = "limiter"   /\ AdmissionNext /\ UNCHANGED <<schedVars, healthVars, authVars>>

\* The minute timer fires, the ticker goroutine goes on, time passes.  The
\* moment a scan ends does not depend on the ticker: a schedule that is tried
\* again and again with a full admission sometimes sees a slot become free, and
\* other requests do not win every race for it.
Sched(A) == focus = "scheduler" /\ A
SchedFairness ==
    /\ WF_schedVars(Sched(Tick)) /\ WF_schedVars(Sched(Dispatch))
    /\ \A s \in Schedules :
          /\ WF_schedVars(Sched(FallsDue(s)))
          /\ SF_schedVars(Sched(Dispatching /\ Current.id = s /\ ScanEnds))
          /\ SF_schedVars(Sched(Dispatching /\ Current.id = s /\ Submit))

\* Time and the loop go on, a list returns; a node that can be reached is not missed
\* by every poll and every list.
Health(A) == focus = "health" /\ A
HealthFairness ==
    /\ WF_healthVars(Health(Pass)) /\ WF_healthVars(Health(Prune))
    /\ WF_healthVars(Health(BeginPoll)) /\ WF_healthVars(Health(ListNodes \/ PollUnlisted))
    /\ SF_healthVars(Health(ListNodes))
    /\ \A n \in Monitored :
          WF_healthVars(Health(PollNode(n))) /\ SF_healthVars(Health(PollAnswers(n)))

ControlSpec ==
    /\ ControlInit /\ [][ControlNext]_<<focus, all>>
    /\ SchedFairness /\ HealthFairness
=============================================================================
