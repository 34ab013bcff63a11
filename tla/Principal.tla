----------------------------- MODULE Principal -----------------------------
(***************************************************************************)
(* Principals of modules/identity/domain/principal.ts, named by IDs that the *)
(* generator of module V7 draws.  A principal is an immutable value: its     *)
(* holders register it, hand it on as a snapshot that the other restores,    *)
(* and each derives its own successor with an expected version, so that      *)
(* holders may be behind each other, and may both succeed the same version.  *)
(***************************************************************************)
EXTENDS V7

CONSTANTS
    Holders,        \* those who keep a principal
    Kinds,          \* {"human", "service"}
    LastInstant,    \* 253402300799999, the last millisecond of year 9999
    MaxVersion      \* 2147483647

ASSUME InstantAssumption == LastInstant \in Nat
ASSUME VersionAssumption == MaxVersion \in Nat \ {0}

VARIABLE held   \* what each holder has: {} or the one principal

identityVars == <<vars, held>>

Statuses == {"active", "suspended"}

(* Clock readings and versions a caller may bring, the ones out of range too *)
Instants == -1..(LastInstant + 1)
Versions == 0..MaxVersion

(* restore: the tests on a snapshot. The ID was parsed when it was drawn, and *)
(* the display name is valid or not.                                          *)
Restorable(s) ==
    /\ s.kind \in Kinds
    /\ s.status \in Statuses
    /\ 0 <= s.createdAtMs
    /\ s.createdAtMs <= s.updatedAtMs
    /\ s.updatedAtMs <= LastInstant
    /\ s.version \in 1..MaxVersion
    /\ s.named

Restore(h, s) ==
    held' = IF Restorable(s) THEN [held EXCEPT ![h] = {s}] ELSE held

----------------------------------------------------------------------------
IdentityInit ==
    /\ Init
    /\ held = [h \in Holders |-> {}]

(* A caller draws an ID, and registers a principal with it when it got one *)
Register(h, ms, kind, named, at) ==
    /\ newId(ms)
    /\ IF result' = "ok"
       THEN Restore(h, [id |-> issued'[Len(issued')], kind |-> kind, named |-> named,
                        status |-> "active", createdAtMs |-> at, updatedAtMs |-> at,
                        version |-> 1])
       ELSE UNCHANGED held

(* snapshot by one holder, restore by another *)
HandOn(h, g) ==
    /\ \E s \in held[h] : Restore(g, s)
    /\ UNCHANGED vars

\* Mutant: the status may be the one the principal already has.
Allowed_AnyStatus(p, status, expected, at) ==
    /\ Restorable(p)
    /\ expected = p.version
    /\ p.updatedAtMs <= at /\ at <= LastInstant
    /\ p.version < MaxVersion

(* The tests of transition; each refuses with a code of its own and leaves the *)
(* principal as it is                                                          *)
Allowed(p, status, expected, at) ==
    /\ Restorable(p)
    /\ expected = p.version
    /\ status # p.status
    /\ p.updatedAtMs <= at /\ at <= LastInstant
    /\ p.version < MaxVersion

(* suspend and activate *)
Transition(h, status, expected, at) ==
    /\ \E p \in held[h] :
          /\ Allowed(p, status, expected, at)
          /\ held' = [held EXCEPT ![h] =
                {[p EXCEPT !.status = status, !.version = @ + 1, !.updatedAtMs = at]}]
    /\ UNCHANGED vars

----------------------------------------------------------------------------
IdentityNext ==
    \/ \E h \in Holders, ms \in -1..(MaxTime + 1), kind \in Kinds, named \in BOOLEAN,
         at \in Instants : Register(h, ms, kind, named, at)
    \/ \E h, g \in Holders : HandOn(h, g)
    \/ \E h \in Holders, status \in Statuses, expected \in Versions, at \in Instants :
          Transition(h, status, expected, at)

IdentitySpec == IdentityInit /\ [][IdentityNext]_identityVars

----------------------------------------------------------------------------
(* Holders of one ID hold one principal, although they may be behind each     *)
(* other or have succeeded the same version on their own: kind, name and      *)
(* creation agree, and one version never means active to one and suspended to *)
(* the other.  What a holder has can always be restored.                      *)
VersionsAgree ==
    \A p, q \in UNION {held[h] : h \in Holders} :
        /\ Restorable(p)
        /\ p.id = q.id =>
              /\ p.kind = q.kind /\ p.named = q.named /\ p.createdAtMs = q.createdAtMs
              /\ p.version = q.version => p.status = q.status

(* A principal nobody had is a registration under a new ID, or the successor   *)
(* of the one its holder had: the other status, the next version, and a time   *)
(* that did not go back.                                                       *)
Descends ==
    \A h \in Holders : \A q \in held'[h] \ UNION {held[g] : g \in Holders} :
        \/ q.version = 1 /\ \A i \in 1..Len(issued) : issued[i] # q.id
        \/ \E p \in held[h] :
              /\ <<q.id, q.version>> = <<p.id, p.version + 1>>
              /\ q.status # p.status
              /\ q.updatedAtMs >= p.updatedAtMs

(* Principals keep their identity through registrations, hand-overs and the    *)
(* transitions of holders that do not know of each other.                      *)
PrincipalsAreSound == [][VersionsAgree' /\ Descends]_identityVars
============================================================================
