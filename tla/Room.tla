-------------------------------- MODULE Room --------------------------------
(***************************************************************************)
(* What the channel commands promise, taken together: rooms that people    *)
(* enter and leave, and who decides in them.  Nothing is said of tables,   *)
(* spellings, descriptors or the order in which a handler does its work.   *)
(*                                                                         *)
(*   - Only known people are in rooms.                                     *)
(*   - Who enters an empty room leads it.  Otherwise a leader is made, or  *)
(*     unmade, only by a decision, and a decision is begun by a leader.    *)
(*   - The rules of a room change only by such a decision, and are         *)
(*     forgotten when the last one leaves.                                 *)
(*   - Nobody is brought into a room by another; who leaves, of their own  *)
(*     will or not, is no leader any more.                                 *)
(***************************************************************************)
CONSTANTS
    Person,
    Place,
    Rule,        \* what the rules of a room may be
    NoRules      \* the rules of a room nobody has decided anything in

VARIABLES
    known,       \* the people who may enter rooms
    inside,      \* pairs <<p, r>>: p is in the room r
    leads,       \* pairs <<p, r>>: p leads r
    rules,       \* the rules of each room
    deciding     \* the room a decision is in progress in: at most one

roomVars == <<known, inside, leads, rules, deciding>>

Inhabited(r) == \E p \in Person : <<p, r>> \in inside

\* The rules are kept in the rooms somebody is in after the step.
ForgetRulesOfEmptied ==
    rules' = [r \in Place |-> IF \E p \in Person : <<p, r>> \in inside'
                              THEN rules[r] ELSE NoRules]

-----------------------------------------------------------------------------
Admit(p) ==
    /\ p \notin known
    /\ known' = known \cup {p}
    /\ UNCHANGED <<inside, leads, rules, deciding>>

Enter(p, rs) ==
    /\ p \in known
    /\ inside' = inside \cup ({p} \X rs)
    /\ leads' = leads \cup ({p} \X {r \in rs : ~Inhabited(r)})
    /\ UNCHANGED <<known, rules, deciding>>

\* The pairs out are no longer in their rooms, for whatever reason.
Remove(out) ==
    /\ inside' = inside \ out
    /\ leads' = leads \ out
    /\ ForgetRulesOfEmptied

Leave(p, rs) ==
    /\ Remove({p} \X rs)
    /\ UNCHANGED <<known, deciding>>

Vanish(p) ==
    /\ known' = known \ {p}
    /\ Remove({p} \X Place)
    /\ UNCHANGED deciding

Begin(p, r) ==
    /\ <<p, r>> \in leads
    /\ deciding' = {r}
    /\ UNCHANGED <<known, inside, leads, rules>>

\* One step of the decision, which may be its last one.
Decide(r) ==
    /\ deciding' \in SUBSET deciding
    /\ leads' \subseteq inside
    /\ rules' \in [Place -> Rule]
    /\ \A s \in Place \ {r} :
          /\ rules'[s] = rules[s]
          /\ \A p \in Person : <<p, s>> \in leads' <=> <<p, s>> \in leads
    /\ UNCHANGED <<known, inside>>

-----------------------------------------------------------------------------
Init ==
    /\ known = {}
    /\ inside = {}
    /\ leads = {}
    /\ rules = [r \in Place |-> NoRules]
    /\ deciding = {}

Undisturbed(p) ==
    \/ Admit(p)
    \/ Vanish(p)
    \/ \E rs \in SUBSET Place : Enter(p, rs) \/ Leave(p, rs)
    \/ \E r \in Place : Begin(p, r)

\* While a decision is in progress nothing else happens.
Next ==
    \/ deciding = {} /\ \E p \in Person : Undisturbed(p)
    \/ \E r \in deciding : Decide(r)

Spec == Init /\ [][Next]_roomVars

=============================================================================
