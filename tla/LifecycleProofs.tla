-------------------------- MODULE LifecycleProofs ---------------------------
(***************************************************************************)
(* For every set of configurations: the main task awaits the instance that *)
(* serves, so that no instance ever holds the shutdown broadcast and the   *)
(* monitoring runs only in a process without proxies; and what the other   *)
(* modules assume of a configuration holds for the instances that serve.   *)
(***************************************************************************)
EXTENDS Lifecycle, TLAPS

USE DEF configVars, instanceVars, serverVars

(* The inductive invariant, in parts. *)

\* An instance that serves is the one that was started last.  Only a signal's
\* default action or a panic takes the main task away from it.
LastStartedServes ==
    \A i \in Instances :
       instance[i] = "serving" => next = i /\ main \in {"awaiting", "killed", "aborted"}

\* The monitoring tasks are spawned after the last instance has returned.
MonitoringIsLast == periodic => main \in {"waiting", "draining", "exited", "aborted"}

\* No instance serves by the time the broadcast is sent.
NoneTold == told = {}

\* So the first instance never returns, and the loop over the instances gets
\* past it only if there is none.
NeverAdvances ==
    /\ next = 1
    /\ main \in {"waiting", "draining", "exited"} => configured = 0
    /\ periodic => configured = 0

AwaitInv ==
    TypeOK /\ LastStartedServes /\ MonitoringIsLast /\ NoneTold /\ NeverAdvances

LEMMA AwaitInvInit == Init => AwaitInv
<1> SUFFICES ASSUME Init
             PROVE  AwaitInv
  OBVIOUS
<1>1. 1 \in 1 .. MaxInstances + 1
  BY MaxInstancesAssumption
<1>2. TypeOK
  BY <1>1 DEF Init, TypeOK
<1>3. LastStartedServes /\ MonitoringIsLast /\ NoneTold /\ NeverAdvances
  BY DEF Init, LastStartedServes, MonitoringIsLast, NoneTold, NeverAdvances
<1> QED
  BY <1>2, <1>3 DEF AwaitInv

LEMMA AwaitInvStep == AwaitInv /\ [Next]_vars => AwaitInv'
<1> SUFFICES ASSUME AwaitInv, [Next]_vars
             PROVE  AwaitInv'
  OBVIOUS
<1> USE DEF AwaitInv, TypeOK, LastStartedServes, MonitoringIsLast, NoneTold,
            NeverAdvances, Servers, Instances, Ended
<1>0. /\ MaxInstances \in Nat /\ configured \in 0 .. MaxInstances
      /\ next \in 1 .. MaxInstances + 1
  BY MaxInstancesAssumption, ConfigsAssumption DEF configured
<1>00. config' = config => configured' = configured
  BY DEF configured
<1>a. CASE LoadFails
  BY <1>00, <1>a DEF LoadFails
<1>b. CASE Load
  BY <1>00, <1>b DEF Load
<1>c. CASE CollectionPanics
  BY <1>00, <1>c DEF CollectionPanics
<1>1. CASE Start
  BY <1>00, <1>1 DEF Start
<1>2. CASE StartProxy
  <2>1. next \in Instances /\ \A i \in Instances : instance[i] # "serving"
    BY <1>0, <1>2 DEF StartProxy
  <2>2. TypeOK'
    BY <1>2, <2>1 DEF StartProxy
  <2>3. LastStartedServes'
    BY <1>2, <2>1 DEF StartProxy
  <2> QED
    BY <1>00, <1>2, <2>2, <2>3 DEF StartProxy
<1>3. CASE StartProxyFails
  <2>1. TypeOK'
    BY <1>3 DEF StartProxyFails
  <2>2. LastStartedServes'
    BY <1>3 DEF StartProxyFails
  <2> QED
    BY <1>00, <1>3, <2>1, <2>2 DEF StartProxyFails
<1>4. CASE ProxyReturns
  \* nothing was told, so the instance can only have broken down
  <2>1. /\ instance' = [instance EXCEPT ![next] = "failed"]
        /\ main' = "failed" /\ next' = next
    BY <1>4 DEF ProxyReturns
  <2>2. TypeOK'
    BY <1>4, <2>1 DEF ProxyReturns
  <2>3. LastStartedServes'
    BY <2>1
  <2> QED
    BY <1>00, <1>4, <2>1, <2>2, <2>3 DEF ProxyReturns
<1>5. CASE AllStarted
  <2>1. configured = 0
    BY <1>0, <1>5 DEF AllStarted
  <2> QED
    BY <1>00, <1>5, <2>1 DEF AllStarted
<1>6. CASE TellProxies
  <2>1. \A i \in Instances : instance[i] # "serving"
    BY <1>6 DEF TellProxies
  <2>2. told' = {}
    BY <1>6, <2>1 DEF TellProxies
  <2> QED
    BY <1>00, <1>6, <2>2 DEF TellProxies
<1>7. CASE TellServer
  BY <1>00, <1>7 DEF TellServer
<1>8. CASE Exit
  BY <1>00, <1>8 DEF Exit
<1>9. CASE Signal
  BY <1>00, <1>9 DEF Signal
<1>10. CASE TriggerShutdown
  BY <1>00, <1>10 DEF TriggerShutdown
<1>11. ASSUME NEW s \in Servers, ServerStarts(s)
       PROVE  AwaitInv'
  BY <1>00, <1>11 DEF ServerStarts
<1>d. ASSUME NEW s \in Servers, ServerPanics(s)
      PROVE  AwaitInv'
  BY <1>00, <1>d DEF ServerPanics
<1>12. ASSUME NEW s \in Servers, ServerStops(s)
       PROVE  AwaitInv'
  BY <1>00, <1>12 DEF ServerStops
<1>13. CASE UNCHANGED vars
  BY <1>00, <1>13 DEF vars
<1> QED
  BY <1>1, <1>2, <1>3, <1>4, <1>5, <1>6, <1>7, <1>8, <1>9, <1>10, <1>11,
     <1>12, <1>13, <1>a, <1>b, <1>c, <1>d DEF Next, MainStep

\* The variables keep their types: the main task never starts an instance
\* beyond those that are configured.
THEOREM Typing == Spec => []TypeOK
<1>1. AwaitInv => TypeOK
  BY DEF AwaitInv
<1> QED
  BY <1>1, AwaitInvInit, AwaitInvStep, PTL DEF Spec

\* start_proxy_instances awaits each instance in turn, so while one serves
\* the process neither monitors, nor drains, nor serves another, and no
\* instance holds the broadcast that would end it.
THEOREM ServingInstancesAreAwaited == Spec => []ServingIsAwaited
<1>1. AwaitInv => ServingIsAwaited
  BY DEF AwaitInv, LastStartedServes, MonitoringIsLast, NoneTold,
         ServingIsAwaited, Alive, Ended
<1> QED
  BY <1>1, AwaitInvInit, AwaitInvStep, PTL DEF Spec

\* Since no instance returns, the monitoring, the signal handlers and the
\* graceful shutdown are reached only without any instance configured.
THEOREM MonitoringHasNoProxy == Spec => []MonitoringMeansNoProxy
<1>1. AwaitInv => MonitoringMeansNoProxy
  BY DEF AwaitInv, NeverAdvances, MonitoringMeansNoProxy
<1> QED
  BY <1>1, AwaitInvInit, AwaitInvStep, PTL DEF Spec

-----------------------------------------------------------------------------
(* Configurations *)

\* A process that gets past the loading has a configuration validate accepts,
\* and an instance that was started passed the check of its proxy as well.
AcceptedInv ==
    /\ main \in {"new", "starting", "awaiting", "waiting", "draining", "exited"}
         => validate(config)
    /\ \A i \in Instances : instance[i] # "configured" => validate(config)
    /\ \A i \in Instances :
          instance[i] \in {"serving", "stopped"} => validate_config(Config_of(i))

\* What the checks mean for an instance of an accepted configuration.
LEMMA AcceptedMeans ==
    ASSUME config \in Configs, validate(config), NEW i \in 1 .. configured
    PROVE  /\ Len(Config_of(i).upstreams) > 0
           /\ \A k, l \in DOMAIN Config_of(i).upstreams : k # l =>
                 Config_of(i).upstreams[k].name # Config_of(i).upstreams[l].name
           /\ \A k \in DOMAIN Config_of(i).upstreams :
                 /\ Config_of(i).upstreams[k].weight > 0
                 /\ Config_of(i).upstreams[k].timeout_ms > 0
           /\ \A j \in 1 .. configured \ {i} :
                 Config_of(j).listen_addr # Config_of(i).listen_addr
<1> DEFINE p == config.proxy_instances
           u == p[i].upstreams
<1>1. /\ DOMAIN p = 1 .. configured
      /\ Len(u) \in Nat
      /\ u # <<>> => Len(u) > 0
      /\ \A k \in DOMAIN u : u[k].weight \in Nat /\ u[k].timeout_ms \in Nat
  BY ConfigsAssumption DEF configured
<1>2. InstanceValid(p[i]) /\ Distinct([j \in DOMAIN p |-> p[j].listen_addr])
  BY <1>1 DEF validate
<1>3. Len(u) > 0
  BY <1>1, <1>2 DEF InstanceValid
<1>4. \A k, l \in DOMAIN u : k # l => u[k].name # u[l].name
  BY <1>2 DEF InstanceValid, Distinct
<1>5. ASSUME NEW k \in DOMAIN u
      PROVE  u[k].weight > 0 /\ u[k].timeout_ms > 0
  <2>1. u[k].weight \in Nat \ {0} /\ u[k].timeout_ms \in Nat \ {0}
    BY <1>1, <1>2 DEF InstanceValid, UpstreamValid
  <2> QED
    BY <2>1
<1>6. \A j \in 1 .. configured \ {i} : p[j].listen_addr # p[i].listen_addr
  BY <1>1, <1>2 DEF Distinct
<1> QED
  BY <1>3, <1>4, <1>5, <1>6 DEF Config_of

LEMMA AcceptedInvInit == Init => AcceptedInv
BY DEF Init, AcceptedInv, Instances

LEMMA AcceptedInvStep == AwaitInv /\ AcceptedInv /\ [Next]_vars => AcceptedInv'
<1> SUFFICES ASSUME AwaitInv, AcceptedInv, [Next]_vars
             PROVE  AcceptedInv'
  OBVIOUS
<1> USE DEF AcceptedInv
<1>1. config' = config
  BY DEF Next, MainStep, LoadFails, Load, Start, StartProxy, StartProxyFails,
         ProxyReturns, AllStarted, TellProxies, TellServer, Exit, Signal,
         TriggerShutdown, CollectionPanics, ServerStarts, ServerPanics,
         ServerStops, vars
<1>2. /\ validate(config)' = validate(config)
      /\ \A i \in Instances :
            validate_config(Config_of(i))' = validate_config(Config_of(i))
  BY <1>1 DEF Config_of, validate, validate_config
<1>3. instance \in [Instances -> {"configured", "serving", "stopped", "failed"}]
  BY DEF AwaitInv, TypeOK
<1>4. CASE main' = main /\ instance' = instance
  BY <1>2, <1>4
<1>5. CASE Load
  BY <1>2, <1>5 DEF Load, instanceVars
<1>6. CASE StartProxy
  <2>1. validate(config) /\ validate_config(Config_of(next))
    BY <1>6 DEF StartProxy
  <2> QED
    BY <1>2, <1>3, <1>6, <2>1 DEF StartProxy
<1>7. CASE StartProxyFails
  BY <1>2, <1>3, <1>7 DEF StartProxyFails
<1>8. CASE ProxyReturns
  <2>1. validate(config)
    BY <1>8 DEF ProxyReturns
  <2>2. instance' = [instance EXCEPT ![next] = "failed"] /\ main' = "failed"
    BY <1>8 DEF ProxyReturns, AwaitInv, NoneTold
  <2> QED
    BY <1>2, <1>3, <2>1, <2>2
<1>9. CASE LoadFails \/ Start \/ AllStarted \/ TellProxies \/ TellServer \/ Exit
            \/ Signal \/ TriggerShutdown \/ CollectionPanics
  BY <1>2, <1>9 DEF LoadFails, Start, AllStarted, TellProxies, TellServer, Exit,
       Signal, TriggerShutdown, CollectionPanics, instanceVars
<1>10. ASSUME NEW s \in Servers, ServerStarts(s) \/ ServerPanics(s) \/ ServerStops(s)
       PROVE  AcceptedInv'
  BY <1>2, <1>10 DEF ServerStarts, ServerPanics, ServerStops, instanceVars
<1>11. CASE UNCHANGED vars
  BY <1>4, <1>11 DEF vars, instanceVars
<1> QED
  BY <1>5, <1>6, <1>7, <1>8, <1>9, <1>10, <1>11 DEF Next, MainStep

\* Config::validate and the proxies' validate_config establish, for whatever
\* the file holds, what routing and the proxies rely on.
THEOREM StartedAreWellFormed == Spec => []StartedIsWellFormed
<1>1. TypeOK /\ AcceptedInv => StartedIsWellFormed
  <2> SUFFICES ASSUME TypeOK, AcceptedInv, NEW i \in 1 .. configured,
                      instance[i] \in {"serving", "stopped"}
               PROVE  StartedIsWellFormed!(i)!2
    BY DEF StartedIsWellFormed
  <2>1. config \in Configs /\ i \in Instances
    BY ConfigsAssumption, MaxInstancesAssumption DEF TypeOK, configured, Instances
  <2>2. validate(config) /\ validate_config(Config_of(i))
    BY <2>1 DEF AcceptedInv
  <2> QED
    BY <2>1, <2>2, AcceptedMeans
<1>2. AwaitInv => TypeOK
  BY DEF AwaitInv
<1> QED
  BY <1>1, <1>2, AwaitInvInit, AwaitInvStep, AcceptedInvInit, AcceptedInvStep,
     PTL DEF Spec

-----------------------------------------------------------------------------
(* The shutdown of the servers *)

\* The servers whose shutdown() has been called.
Passed == {s \in Servers : tell = "done" \/ (tell = "health" /\ s = "metrics")}

\* shutdown() runs once the handler has received the signal, and ends when both
\* servers have been told.
ShutdownInOrder ==
    /\ tell # "proxies" => main \in {"draining", "exited", "aborted"}
    /\ main = "exited" => tell = "done"

\* A server that was told holds the broadcast, or has not subscribed when it
\* was sent: then it may be waiting to run even now.
PassedKnow ==
    \A s \in Passed :
       server[s] \in {"spawned", "serving"} => s \in server_told \/ s \in missed

LEMMA PassedKnowInit == Init => ShutdownInOrder /\ PassedKnow
BY DEF Init, ShutdownInOrder, PassedKnow, Passed

LEMMA PassedKnowStep ==
    TypeOK /\ ShutdownInOrder /\ PassedKnow /\ [Next]_vars
       => ShutdownInOrder' /\ PassedKnow'
<1> SUFFICES ASSUME TypeOK, ShutdownInOrder, PassedKnow, [Next]_vars
             PROVE  ShutdownInOrder' /\ PassedKnow'
  OBVIOUS
<1> USE DEF TypeOK, ShutdownInOrder, PassedKnow, Passed, Servers, Ended
<1>1. CASE LoadFails \/ Load \/ StartProxy \/ StartProxyFails \/ ProxyReturns
             \/ AllStarted \/ Signal \/ TriggerShutdown \/ CollectionPanics
  BY <1>1 DEF LoadFails, Load, StartProxy, StartProxyFails, ProxyReturns,
       AllStarted, Signal, TriggerShutdown, CollectionPanics
<1>2. CASE Start
  \* nobody has been told yet
  BY <1>2 DEF Start
<1>3. CASE TellProxies
  BY <1>3 DEF TellProxies
<1>4. CASE TellServer
  BY <1>4 DEF TellServer
<1>5. CASE Exit
  BY <1>5 DEF Exit
<1>6. ASSUME NEW s \in Servers, ServerStarts(s)
      PROVE  ShutdownInOrder' /\ PassedKnow'
  BY <1>6 DEF ServerStarts, Alive
<1>7. ASSUME NEW s \in Servers, ServerPanics(s)
      PROVE  ShutdownInOrder' /\ PassedKnow'
  BY <1>7 DEF ServerPanics, Alive
<1>8. ASSUME NEW s \in Servers, ServerStops(s)
      PROVE  ShutdownInOrder' /\ PassedKnow'
  BY <1>8 DEF ServerStops, Alive
<1>9. CASE UNCHANGED vars
  BY <1>9 DEF vars
<1> QED
  BY <1>1, <1>2, <1>3, <1>4, <1>5, <1>6, <1>7, <1>8, <1>9 DEF Next, MainStep

\* Router::wait_for_shutdown tells every server: one that still serves when
\* the process exits holds the broadcast, or had not subscribed to it.
THEOREM ServersAreTold == Spec => []NoServerForgotten
<1>1. ShutdownInOrder /\ PassedKnow => NoServerForgotten
  BY DEF ShutdownInOrder, PassedKnow, Passed, NoServerForgotten
<1> QED
  BY <1>1, PassedKnowInit, PassedKnowStep, Typing, PTL DEF Spec
=============================================================================
