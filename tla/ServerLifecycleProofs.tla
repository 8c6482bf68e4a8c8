------------------------ MODULE ServerLifecycleProofs ------------------------
(***************************************************************************)
(* The safety of the life of the process, for any set of descriptors.      *)
(*                                                                         *)
(* Neither property is inductive alone: that g_server points to a Server   *)
(* needs to know where in main() one exists (LifePhases), and that nothing *)
(* is open at the end needs to know that main() reaches its end only before *)
(* socket() or after the destructor.                                       *)
(***************************************************************************)
EXTENDS ServerLifecycle, TLAPS

\* Where main() is before it builds the Server, and while it has one.
BeforeServer == {"arguments", "handlers", "construct"}
WithServer == {"publish", "socket", "configure", "start", "check", "enter",
               "poll", "round", "unpublish", "destroy"}

LifePhases ==
    /\ pc \in BeforeServer => open = {}
    /\ pc \in WithServer => built
    /\ pc = "destroy" => ~g_server
    /\ pc \in {"exited", "killed"} => open = {}
    /\ g_server => built

LifeInvariant ==
    /\ TypeOK
    /\ LifePhases
    /\ open \subseteq clients \cup listening

LEMMA LifeInitially == Init => LifeInvariant
  BY DEF Init, LifeInvariant, TypeOK, LifePhases, BeforeServer, WithServer, Signals

LEMMA LifeStep == LifeInvariant /\ [Next]_vars => LifeInvariant'
<1> SUFFICES ASSUME LifeInvariant, [Next]_vars PROVE LifeInvariant'
  OBVIOUS
<1> USE DEF LifeInvariant, TypeOK, LifePhases, BeforeServer, WithServer, Signals, Goto
<1>1. CASE validateArguments
  BY <1>1 DEF validateArguments
<1>2. CASE setupSignalHandlers
  BY <1>2 DEF setupSignalHandlers
<1>3. CASE construct
  BY <1>3 DEF construct
<1>4. CASE publish
  BY <1>4 DEF publish
<1>5. CASE init
  BY <1>5 DEF init
<1>6. CASE start
  BY <1>6 DEF start
<1>7. CASE check
  BY <1>7 DEF check
<1>8. CASE poll
  BY <1>8 DEF poll
<1>9. CASE round
  BY <1>9 DEF round
<1>10. CASE unpublish
  BY <1>10 DEF unpublish
<1>11. CASE destroy
  BY <1>11 DEF destroy
<1>12. ASSUME NEW s \in Signals, signalHandler(s) PROVE LifeInvariant'
  BY <1>12 DEF signalHandler, Ended
<1>13. ASSUME NEW s \in Signals, Kill(s) PROVE LifeInvariant'
  BY <1>13 DEF Kill, Ended
<1>14. CASE UNCHANGED vars
  BY <1>14 DEF vars
<1> QED
  BY <1>1, <1>2, <1>3, <1>4, <1>5, <1>6, <1>7, <1>8, <1>9, <1>10, <1>11, <1>12,
     <1>13, <1>14 DEF Next, main

LEMMA LifeAlways == Spec => []LifeInvariant
  BY LifeInitially, LifeStep, PTL DEF Spec

\* A signal at any point of main() finds no Server or one that exists.
THEOREM HandlerIsSafe == Spec => []HandlerFindsServer
<1>1. LifeInvariant => HandlerFindsServer
  BY DEF LifeInvariant, LifePhases, HandlerFindsServer
<1> QED
  BY <1>1, LifeAlways, PTL

\* Every open descriptor is one the destructor closes, and main() returns with
\* none, however many clients there are and whichever call of init() fails.
THEOREM DescriptorsAreClosed == Spec => []NoDescriptorLeaks
<1>1. LifeInvariant => NoDescriptorLeaks
  BY DEF LifeInvariant, LifePhases, NoDescriptorLeaks
<1> QED
  BY <1>1, LifeAlways, PTL

=============================================================================
