--------------------------- MODULE ProjectsProofs ---------------------------
(***************************************************************************)
(* Proofs that one key opens a living project and that a deleted one grants*)
(* nothing: for any number of projects, accounts and concurrent requests,  *)
(* whichever statement of which request fails.                             *)
(***************************************************************************)
EXTENDS Projects, FunctionTheorems, FiniteSetTheorems, TLAPS

----------------------------------------------------------------------------
(* What the choices find.                                                  *)

LEMMA Injects ==
  ASSUME NEW S, NEW T, IsFiniteSet(S), IsFiniteSet(T), Cardinality(S) <= Cardinality(T)
  PROVE  \E f \in [S -> T] : IsInjective(f)
<1>1. ExistsBijection(1 .. Cardinality(S), S) /\ Cardinality(S) \in Nat
  BY FS_CardinalityType
<1>2. ExistsBijection(1 .. Cardinality(T), T) /\ Cardinality(T) \in Nat
  BY FS_CardinalityType
<1>3. ExistsInjection(S, 1 .. Cardinality(S)) /\ ExistsInjection(1 .. Cardinality(T), T)
  BY <1>1, <1>2, Fun_ExistsBijEquiv
<1>4. ExistsInjection(1 .. Cardinality(S), 1 .. Cardinality(T))
  BY <1>1, <1>2, Fun_NatInjLeq
<1>5. ExistsInjection(S, T)
  BY <1>3, <1>4, Fun_ExistsInjTransitive
<1> QED BY <1>5 DEF ExistsInjection, Injection

LEMMA Sizes ==
  /\ Cardinality(Projects) \in Nat /\ Cardinality(Requests) \in Nat
  /\ Cardinality(Names) \in Nat /\ Cardinality(Keys) \in Nat
BY FS_CardinalityType, ProjectsAssumption

\* Init has names and keys to give.
LEMMA Firsts == FirstName \in [Projects -> Names] /\ FirstKey \in [Projects -> Keys]
<1>1. \E f \in [Projects -> Names] : IsInjective(f)
  BY Injects, ProjectsAssumption
<1>2. \E f \in [Projects -> Keys] : IsInjective(f)
  BY Injects, Sizes, ProjectsAssumption
<1> QED BY <1>1, <1>2 DEF FirstName, FirstKey

\* The values of a function on a finite set.
LEMMA Images ==
  ASSUME NEW S, NEW f, IsFiniteSet(S)
  PROVE  IsFiniteSet({f[x] : x \in S}) /\ Cardinality({f[x] : x \in S}) <= Cardinality(S)
<1> DEFINE T == {f[x] : x \in S}
           g == [x \in S |-> f[x]]
<1>1. g \in Surjection(S, T)
  BY DEF Surjection
<1> HIDE DEF g, T
<1>2. IsFiniteSet(T) /\ Cardinality(T) <= Cardinality(S)
  BY <1>1, FS_Surjection
<1> QED BY <1>2 DEF T

----------------------------------------------------------------------------
(* Types.                                                                  *)

Row == [id: Nat, key: Keys]

Typed ==
  /\ project \in [Projects -> [state: {"free", "live", "deleted"}, name: Names \cup {None}]]
  /\ secret \in [Projects -> SUBSET Row]
  /\ member \in [Projects -> [Users -> Levels \cup {None}]]
  /\ star \in [Projects -> SUBSET Users]
  /\ lock \in [Projects -> Requests \cup {None}]
  /\ req \in [Requests -> RequestType]
  /\ past \in [key: [Projects -> Keys \cup {None}], across: BOOLEAN]

LEMMA TypedIs == (TypeOK <=> Typed) /\ (TypeOK' <=> Typed')
BY DEF TypeOK, Typed, Row

LEMMA BlankType ==
  /\ Blank \in RequestType
  /\ Blank.pc = "idle" /\ Blank.op = "create" /\ Blank.key = None /\ Blank.stale = FALSE
BY DEF Blank, RequestType, Nothing, Kinds

----------------------------------------------------------------------------
(* The inductive invariant.                                                *)

\* A request is at a statement of its operation and carries what it needs.
Fits(r) ==
  /\ req[r].op = "create" =>
       req[r].pc \in {"idle", "name", "insert", "admitted", "done"} /\ req[r].key = None
  /\ req[r].op = "rename" => req[r].pc \in {"lock", "name", "write"}
  /\ req[r].op = "rotate" => req[r].pc \in {"lock", "drop", "insert"} /\ req[r].key \in Keys
  /\ req[r].op = "delete" => req[r].pc \in {"lock", "secrets", "stars", "members", "remove"}
  /\ req[r].op = "star" => req[r].pc \in {"project", "star", "toggle"} /\ req[r].user \in Users
  /\ req[r].op \in {"grant", "revoke"} =>
       /\ req[r].pc \in {"manage", "target"}
       /\ req[r].user \in Users /\ req[r].target \in Users
  /\ req[r].op = "device" => req[r].pc \in {"project", "key"}
  /\ req[r].op # "create" => Mine(r) \in Projects /\ ~Free(Mine(r))

\* Between SELECT ... FOR UPDATE and the commit.
InTransaction(r) ==
  \/ req[r].pc \in {"write", "drop", "secrets", "stars", "members", "remove"}
  \/ req[r].pc = "name" /\ req[r].op = "rename"
  \/ req[r].pc = "insert" /\ req[r].op = "rotate"

\* The row it locked is its own, and the project lives until it says otherwise.
Holds(r) == InTransaction(r) => lock[Mine(r)] = r /\ Live(Mine(r))

\* What a transaction deleted is still all there is: of the keys always, of the
\* stars and members unless somebody wrote one meanwhile.
SawAll(r) ==
  /\ req[r].pc \in {"stars", "members", "remove"} \/ (req[r].pc = "insert" /\ req[r].op = "rotate")
       => req[r].doomed.keys = KeysOf(Mine(r))
  /\ req[r].pc \in {"members", "remove"} /\ ~past.across => star[Mine(r)] \subseteq req[r].doomed.stars
  /\ req[r].pc = "remove" /\ ~past.across => MembersOf(Mine(r)) \subseteq req[r].doomed.members

\* Who can still write a row of a deleted project.
Latecomer(r) ==
  req[r].op # "create" /\ project[Mine(r)].state = "deleted" /\ ~past.across =>
    /\ req[r].pc \notin {"star", "toggle"}
    /\ req[r].pc \in {"manage", "target"} => IsSuperAdmin(req[r].user)

\* A key that was dead when the device came stays dead.
StaysDead(r) ==
  /\ req[r].op = "device" /\ req[r].stale => ~(Live(Mine(r)) /\ past.key[Mine(r)] = req[r].key)
  /\ req[r].pc = "admitted" => ~req[r].stale

Own(r) == Fits(r) /\ Holds(r) /\ SawAll(r) /\ Latecomer(r) /\ StaysDead(r)

\* A key that a rotation has drawn is nobody else's.
NewKeys ==
  \A r \in Requests : req[r].op = "rotate" =>
    /\ \A p \in Projects : past.key[p] # req[r].key
    /\ \A q \in Requests \ {r} : req[q].key # req[r].key

OneRow ==
  \A p \in Projects :
    IF Live(p) THEN \E row \in secret[p] : secret[p] = {row} /\ row.key = past.key[p]
               ELSE secret[p] = {}

Clean ==
  past.across \/
    \A p \in Projects : project[p].state = "deleted" => MembersOf(p) = {} /\ star[p] = {}

IInv == (\A r \in Requests : Own(r)) /\ NewKeys /\ OneRow /\ Clean

\* One row is a key.
LEMMA KeysAre ==
  ASSUME OneRow, NEW p \in Projects
  PROVE  /\ Live(p) => KeysOf(p) = {past.key[p]}
         /\ ~Live(p) => KeysOf(p) = {}
BY DEF OneRow, KeysOf

LEMMA DrawnIs ==
  \A x : x \in Drawn <=> \/ \E p \in Projects : x \in KeysOf(p)
                         \/ \E p \in Projects : x = past.key[p]
                         \/ \E q \in Requests : x = req[q].key
<1> DEFINE A == {KeysOf(p) : p \in Projects}
           B == {past.key[p] : p \in Projects}
           C == {req[q].key : q \in Requests}
<1>1. Drawn = (UNION A) \cup B \cup C
  BY DEF Drawn
<1>2. \A x : x \in UNION A <=> \E p \in Projects : x \in KeysOf(p)
  OBVIOUS
<1>3. \A x : x \in B <=> \E p \in Projects : x = past.key[p]
  OBVIOUS
<1>4. \A x : x \in C <=> \E q \in Requests : x = req[q].key
  OBVIOUS
<1> HIDE DEF A, B, C
<1> QED BY <1>1, <1>2, <1>3, <1>4

\* There is always a key nobody has.
LEMMA FreshKeyIs ==
  ASSUME Typed, IInv, NEW r \in Requests, req[r].key = None
  PROVE  /\ FreshKey \in Keys
         /\ \A p \in Projects : past.key[p] # FreshKey
         /\ \A q \in Requests : req[q].key # FreshKey
<1> DEFINE P == {past.key[p] : p \in Projects}
           k == [q \in Requests |-> req[q].key]
           Q == {k[q] : q \in Requests \ {r}}
<1>1. IsFiniteSet(P) /\ Cardinality(P) <= Cardinality(Projects)
  BY Images, ProjectsAssumption
<1>2. /\ IsFiniteSet(Requests \ {r})
      /\ Cardinality(Requests \ {r}) = Cardinality(Requests) - 1
  BY FS_RemoveElement, ProjectsAssumption
<1>3. IsFiniteSet(Q) /\ Cardinality(Q) <= Cardinality(Requests) - 1
  <2>1. IsFiniteSet(Q) /\ Cardinality(Q) <= Cardinality(Requests \ {r})
    <3> HIDE DEF k
    <3> QED BY <1>2, Images
  <2> QED BY <1>2, <2>1
<1>4. /\ IsFiniteSet(P \cup Q)
      /\ Cardinality(P \cup Q) = Cardinality(P) + Cardinality(Q) - Cardinality(P \cap Q)
      /\ Cardinality(P) \in Nat /\ Cardinality(Q) \in Nat /\ Cardinality(P \cap Q) \in Nat
  <2> HIDE DEF P, Q
  <2>1. IsFiniteSet(P \cap Q)
    BY <1>1, <1>3, FS_Subset
  <2> QED BY <1>1, <1>3, <2>1, FS_Union, FS_CardinalityType
<1>5. Cardinality(P \cup Q) < Cardinality(Keys) /\ Cardinality(P \cup Q) \in Nat
  <2>1. Cardinality(P \cup Q) \in Nat
    BY <1>4, FS_CardinalityType
  <2> HIDE DEF P, Q
  <2> QED BY <1>1, <1>3, <1>4, <2>1, Sizes, ProjectsAssumption
<1>6. ~(Keys \subseteq P \cup Q)
  <2> HIDE DEF P, Q
  <2> SUFFICES ASSUME Keys \subseteq P \cup Q PROVE FALSE
    OBVIOUS
  <2>1. Cardinality(Keys) <= Cardinality(P \cup Q)
    BY <1>4, FS_Subset
  <2> QED BY <1>5, <2>1, Sizes
<1>7. ASSUME NEW x \in Keys PROVE x \in Drawn <=> x \in P \cup Q
  <2>1. x \in Drawn <=> \/ \E p \in Projects : x \in KeysOf(p)
                        \/ \E p \in Projects : x = past.key[p]
                        \/ \E q \in Requests : x = req[q].key
    BY DrawnIs
  <2>2. x # None
    BY ProjectsAssumption
  <2>3. \A p \in Projects : x \in KeysOf(p) => x = past.key[p]
    BY KeysAre DEF IInv
  <2>4. x \in P <=> \E p \in Projects : x = past.key[p]
    OBVIOUS
  <2>5. x \in Q <=> \E q \in Requests : x = req[q].key
    BY <2>2
  <2> HIDE DEF P, Q
  <2> QED BY <2>1, <2>3, <2>4, <2>5
<1>8. \E x \in Keys : x \notin Drawn
  BY <1>6, <1>7
<1>9. FreshKey \in Keys /\ FreshKey \notin Drawn
  BY <1>8 DEF FreshKey
<1>10. FreshKey # None
  BY <1>9, ProjectsAssumption
<1>11. \A q \in Requests : req[q].key = FreshKey => FreshKey \in Drawn
  BY DrawnIs
<1>12. \A p \in Projects : past.key[p] = FreshKey => FreshKey \in Drawn
  BY DrawnIs
<1> QED BY <1>9, <1>11, <1>12

----------------------------------------------------------------------------
(* The invariant at first, and the ways a step leaves most of it alone.    *)

LEMMA InitKeeps == Init => Typed /\ IInv
<1> SUFFICES ASSUME Init PROVE Typed /\ IInv
  OBVIOUS
<1>1. PICK state \in [Projects -> {"free", "live", "deleted"}] :
        /\ project = [p \in Projects |-> [state |-> state[p],
             name |-> IF state[p] = "free" THEN None ELSE FirstName[p]]]
        /\ secret = [p \in Projects |->
             IF state[p] = "live" THEN {[id |-> 1, key |-> FirstKey[p]]} ELSE {}]
        /\ member \in {f \in [Projects -> [Users -> Levels \cup {None}]] :
             \A p \in Projects :
               IF state[p] = "live"
               THEN \E u \in Users : RoleOf[u] # "member" /\ f[p][u] = "maintainer"
               ELSE f[p] = [u \in Users |-> None]}
  BY DEF Init
<1>2. \A p \in Projects :
        /\ project[p] \in [state: {"free", "live", "deleted"}, name: Names \cup {None}]
        /\ project[p].state = state[p]
  BY <1>1, Firsts
<1>3. past = [key |-> [p \in Projects |-> IF project[p].state = "free" THEN None ELSE FirstKey[p]],
              across |-> FALSE]
  BY DEF Init
<1>4. \A p \in Projects :
        /\ secret[p] \in SUBSET Row
        /\ IF Live(p) THEN secret[p] = {[id |-> 1, key |-> FirstKey[p]]} ELSE secret[p] = {}
        /\ past.key[p] = IF project[p].state = "free" THEN None ELSE FirstKey[p]
        /\ past.key[p] \in Keys \cup {None}
  BY <1>1, <1>2, <1>3, Firsts DEF Row, Live
<1>5. Typed
  <2>1. project \in [Projects -> [state: {"free", "live", "deleted"}, name: Names \cup {None}]]
    BY <1>1, <1>2
  <2>2. secret \in [Projects -> SUBSET Row]
    BY <1>1, <1>4
  <2>3. past \in [key: [Projects -> Keys \cup {None}], across: BOOLEAN]
    BY <1>3, <1>4, Firsts
  <2>4. req \in [Requests -> RequestType]
    BY BlankType DEF Init
  <2>5. lock \in [Projects -> Requests \cup {None}] /\ star \in [Projects -> SUBSET Users]
    BY DEF Init
  <2> QED BY <1>1, <2>1, <2>2, <2>3, <2>4, <2>5 DEF Typed
<1>6. \A r \in Requests : req[r] = Blank
  BY DEF Init
<1>7. (\A r \in Requests : Own(r)) /\ NewKeys
  BY <1>6, BlankType
     DEF Own, NewKeys, Fits, Holds, InTransaction, SawAll, Latecomer, StaysDead
<1>8. OneRow
  <2> SUFFICES ASSUME NEW p \in Projects
               PROVE  IF Live(p) THEN \E row \in secret[p] : secret[p] = {row} /\ row.key = past.key[p]
                                 ELSE secret[p] = {}
    BY DEF OneRow
  <2>1. CASE Live(p)
    <3>1. past.key[p] = FirstKey[p]
      BY <1>4, <2>1 DEF Live
    <3> DEFINE row == [id |-> 1, key |-> FirstKey[p]]
    <3>2. secret[p] = {row} /\ row.key = past.key[p]
      BY <1>4, <2>1, <3>1
    <3> HIDE DEF row
    <3> QED BY <2>1, <3>2
  <2> QED BY <1>4, <2>1
<1>9. Clean
  <2> SUFFICES ASSUME NEW p \in Projects, project[p].state = "deleted"
               PROVE  MembersOf(p) = {} /\ star[p] = {}
    BY DEF Clean
  <2>1. member[p] = [u \in Users |-> None]
    BY <1>1, <1>2
  <2>2. \A u \in Users : member[p][u] = None
    BY <2>1
  <2>3. star[p] = {}
    BY DEF Init
  <2> QED BY <2>2, <2>3 DEF MembersOf
<1> QED BY <1>5, <1>7, <1>8, <1>9 DEF IInv

\* A step of one request that writes no row but a name, and takes no lock of others.
LEMMA Quiet ==
  ASSUME Typed, IInv, NEW r \in Requests,
         req' \in [Requests -> RequestType],
         \A q \in Requests : q # r => req'[q] = req[q],
         project' \in [Projects -> [state: {"free", "live", "deleted"}, name: Names \cup {None}]],
         \A p \in Projects : project'[p].state = project[p].state,
         UNCHANGED <<secret, member, star, past>>,
         lock' \in [Projects -> Requests \cup {None}],
         \A p \in Projects, q \in Requests : q # r /\ lock[p] = q => lock'[p] = q,
         Own(r)',
         req'[r].op = "rotate" =>
           /\ \A p \in Projects : past.key[p] # req'[r].key
           /\ \A q \in Requests \ {r} : req[q].key # req'[r].key,
         \A q \in Requests \ {r} : req[q].op = "rotate" => req[q].key # req'[r].key
  PROVE  Typed' /\ IInv'
<1>1. Typed'
  BY DEF Typed
<1>2. \A p \in Projects : (Live(p)' <=> Live(p)) /\ (Free(p)' <=> Free(p)) /\ KeysOf(p)' = KeysOf(p)
                          /\ MembersOf(p)' = MembersOf(p)
  BY DEF Live, Free, KeysOf, MembersOf
<1>3. ASSUME NEW q \in Requests, q # r PROVE Own(q)'
  <2>1. Own(q) /\ req'[q] = req[q] /\ Mine(q)' = Mine(q) /\ (InTransaction(q)' <=> InTransaction(q))
    BY <1>3 DEF IInv, Mine, InTransaction
  <2>2. Fits(q)'
    BY <1>2, <2>1 DEF Own, Fits
  <2>3. req[q].op # "create" => Mine(q) \in Projects
    BY <2>1 DEF Own, Fits
  <2>4. InTransaction(q) => req[q].op # "create"
    BY <2>1 DEF Own, Fits, InTransaction
  <2>5. Holds(q)'
    BY <1>2, <1>3, <2>1, <2>3, <2>4 DEF Own, Holds
  <2>6. SawAll(q)'
    BY <1>2, <2>1, <2>3 DEF Own, SawAll, Fits
  <2>7. Latecomer(q)' /\ StaysDead(q)'
    BY <1>2, <2>1, <2>3 DEF Own, Latecomer, StaysDead
  <2> QED BY <2>2, <2>5, <2>6, <2>7 DEF Own
<1>4. NewKeys'
  BY DEF NewKeys, IInv
<1>5. OneRow' /\ Clean'
  BY <1>2 DEF OneRow, Clean, IInv
<1> QED BY <1>1, <1>3, <1>4, <1>5 DEF IInv

\* An answered request is out of everything.
LEMMA EndsIs ==
  ASSUME Typed, IInv, NEW r \in Requests, Ends(r)
  PROVE  /\ req' \in [Requests -> RequestType]
         /\ \A q \in Requests : q # r => req'[q] = req[q]
         /\ req'[r].pc = "done" /\ req'[r].op = "create" /\ req'[r].key = None
         /\ Own(r)'
         /\ \A q \in Requests \ {r} : req[q].op = "rotate" => req[q].key # req'[r].key
<1> DEFINE x == [Blank EXCEPT !.pc = "done"]
<1>1. x \in RequestType /\ x.pc = "done" /\ x.op = "create" /\ x.key = None
  BY BlankType DEF RequestType
<1>2. req' = [req EXCEPT ![r] = x]
  BY Zenon DEF Ends
<1> HIDE DEF x
<1>3. req' \in [Requests -> RequestType] /\ req'[r] = x /\ \A q \in Requests : q # r => req'[q] = req[q]
  BY <1>1, <1>2 DEF Typed
<1>4. Own(r)'
  BY <1>1, <1>3 DEF Own, Fits, Holds, InTransaction, SawAll, Latecomer, StaysDead
<1>5. \A q \in Requests \ {r} : req[q].op = "rotate" => req[q].key # None
  BY ProjectsAssumption DEF IInv, Own, Fits
<1> QED BY <1>1, <1>3, <1>4, <1>5

LEMMA ReleaseIs ==
  ASSUME Typed, NEW r \in Requests, Release(r)
  PROVE  /\ lock' \in [Projects -> Requests \cup {None}]
         /\ \A p \in Projects, q \in Requests : q # r /\ lock[p] = q => lock'[p] = q
BY DEF Typed, Release

----------------------------------------------------------------------------
(* Requests come in.                                                       *)

LEMMA Begins ==
  ASSUME Typed, IInv, NEW r \in Requests, NEW x \in RequestType, Begin(r, x),
         UNCHANGED <<project, secret, member, star, lock, past>>,
         Own(r)',
         x.op = "rotate" => x.key = FreshKey,
         x.op # "rotate" => x.key = None \/ \E p \in Projects : x.key = past.key[p]
  PROVE  Typed' /\ IInv'
<1>1. req' = [req EXCEPT ![r] = x] /\ req[r].pc = "idle"
  BY DEF Begin, At
<1>2. req' \in [Requests -> RequestType] /\ req'[r] = x /\ \A q \in Requests : q # r => req'[q] = req[q]
  BY <1>1 DEF Typed
<1>3. req[r].key = None
  <2>1. Fits(r) /\ req[r].op \in Kinds
    BY DEF IInv, Own, Typed, RequestType
  <2> QED BY <1>1, <2>1 DEF Fits, Kinds
<1>4. /\ FreshKey \in Keys
      /\ \A p \in Projects : past.key[p] # FreshKey
      /\ \A q \in Requests : req[q].key # FreshKey
  BY <1>3, FreshKeyIs
<1>5. \A q \in Requests : req[q].op = "rotate" =>
        req[q].key # None /\ \A p \in Projects : past.key[p] # req[q].key
  BY ProjectsAssumption DEF IInv, NewKeys, Own, Fits
<1>6. \A q \in Requests \ {r} : req[q].op = "rotate" => req[q].key # x.key
  BY <1>4, <1>5
<1>7. /\ lock' \in [Projects -> Requests \cup {None}]
      /\ project' \in [Projects -> [state: {"free", "live", "deleted"}, name: Names \cup {None}]]
      /\ \A p \in Projects : project'[p].state = project[p].state
      /\ \A p \in Projects, q \in Requests : q # r /\ lock[p] = q => lock'[p] = q
  BY DEF Typed
<1> HIDE DEF IInv, Typed, Own
<1> QED BY <1>2, <1>4, <1>6, <1>7, Quiet

LEMMA AskKeeps ==
  ASSUME Typed, IInv, NEW r \in Requests, Ask(r)
  PROVE  Typed' /\ IInv'
<1> USE DEF Made
<1>0. FreshKey \in Keys
  <2>1. Fits(r) /\ req[r].op \in Kinds /\ req[r].pc = "idle"
    BY DEF IInv, Own, Typed, RequestType, Ask, AskCreate, AskRename, AskRotate, AskDelete, AskStar,
           AskAccess, AskDevice, Begin, At
  <2>2. req[r].key = None
    BY <2>1 DEF Fits, Kinds
  <2> QED BY <2>2, FreshKeyIs
<1>1. ASSUME NEW u \in Users, NEW n \in Names, AskCreate(r, u, n) PROVE Typed' /\ IInv'
  <2> DEFINE x == [Blank EXCEPT !.pc = "name", !.op = "create", !.user = u, !.name = n]
  <2>1. /\ x \in RequestType /\ x.pc = "name" /\ x.op = "create" /\ x.key = None /\ x.stale = FALSE
    BY DEF Blank, RequestType, Nothing, Kinds
  <2>2. Begin(r, x) /\ UNCHANGED <<project, secret, member, star, lock, past>>
    BY <1>1 DEF AskCreate
  <2> HIDE DEF x
  <2>3. req'[r] = x
    BY <2>2 DEF Begin, Typed
  <2>4. Own(r)'
    BY <2>1, <2>3 DEF Own, Fits, Holds, InTransaction, SawAll, Latecomer, StaysDead
  <2> QED BY <2>1, <2>2, <2>4, Begins
<1>2. ASSUME NEW u \in Users, NEW p \in Made, NEW n \in Names, AskRename(r, u, p, n) PROVE Typed' /\ IInv'
  <2> DEFINE x == [Blank EXCEPT !.pc = "lock", !.op = "rename", !.user = u, !.project = p, !.name = n]
  <2>1. /\ x \in RequestType /\ x.pc = "lock" /\ x.op = "rename" /\ x.key = None /\ x.project = p
    BY DEF Blank, RequestType, Nothing, Kinds
  <2>2. Begin(r, x) /\ UNCHANGED <<project, secret, member, star, lock, past>>
    BY <1>2 DEF AskRename
  <2> HIDE DEF x
  <2>3. req'[r] = x
    BY <2>2 DEF Begin, Typed
  <2>4. Own(r)'
    BY <2>1, <2>2, <2>3 DEF Own, Fits, Holds, InTransaction, SawAll, Latecomer, StaysDead, Mine, Free
  <2> QED BY <2>1, <2>2, <2>4, Begins
<1>3. ASSUME NEW u \in Users, NEW p \in Made, AskRotate(r, u, p) PROVE Typed' /\ IInv'
  <2> DEFINE x == [Blank EXCEPT !.pc = "lock", !.op = "rotate", !.user = u, !.project = p, !.key = FreshKey]
  <2>1. /\ x \in RequestType /\ x.pc = "lock" /\ x.op = "rotate" /\ x.key = FreshKey /\ x.project = p
    BY <1>0 DEF Blank, RequestType, Nothing, Kinds
  <2>2. Begin(r, x) /\ UNCHANGED <<project, secret, member, star, lock, past>>
    BY <1>3 DEF AskRotate
  <2> HIDE DEF x
  <2>3. req'[r] = x
    BY <2>2 DEF Begin, Typed
  <2>4. Own(r)'
    BY <1>0, <2>1, <2>2, <2>3 DEF Own, Fits, Holds, InTransaction, SawAll, Latecomer, StaysDead, Mine, Free
  <2> QED BY <2>1, <2>2, <2>4, Begins
<1>4. ASSUME NEW u \in Users, NEW p \in Made, AskDelete(r, u, p) PROVE Typed' /\ IInv'
  <2> DEFINE x == [Blank EXCEPT !.pc = "lock", !.op = "delete", !.user = u, !.project = p]
  <2>1. /\ x \in RequestType /\ x.pc = "lock" /\ x.op = "delete" /\ x.key = None /\ x.project = p
    BY DEF Blank, RequestType, Nothing, Kinds
  <2>2. Begin(r, x) /\ UNCHANGED <<project, secret, member, star, lock, past>>
    BY <1>4 DEF AskDelete
  <2> HIDE DEF x
  <2>3. req'[r] = x
    BY <2>2 DEF Begin, Typed
  <2>4. Own(r)'
    BY <2>1, <2>2, <2>3 DEF Own, Fits, Holds, InTransaction, SawAll, Latecomer, StaysDead, Mine, Free
  <2> QED BY <2>1, <2>2, <2>4, Begins
<1>5. ASSUME NEW u \in Users, NEW p \in Made, AskStar(r, u, p) PROVE Typed' /\ IInv'
  <2> DEFINE x == [Blank EXCEPT !.pc = "project", !.op = "star", !.user = u, !.project = p]
  <2>1. /\ x \in RequestType /\ x.pc = "project" /\ x.op = "star" /\ x.key = None /\ x.project = p
        /\ x.user = u
    BY DEF Blank, RequestType, Nothing, Kinds
  <2>2. Begin(r, x) /\ UNCHANGED <<project, secret, member, star, lock, past>>
    BY <1>5 DEF AskStar
  <2> HIDE DEF x
  <2>3. req'[r] = x
    BY <2>2 DEF Begin, Typed
  <2>4. Own(r)'
    BY <2>1, <2>2, <2>3 DEF Own, Fits, Holds, InTransaction, SawAll, Latecomer, StaysDead, Mine, Free
  <2> QED BY <2>1, <2>2, <2>4, Begins
<1>6. ASSUME NEW u \in Users, NEW v \in Users, NEW p \in Made, NEW l \in Levels \cup {None},
             AskAccess(r, u, p, v, l)
      PROVE  Typed' /\ IInv'
  <2> DEFINE op == IF l = None THEN "revoke" ELSE "grant"
             x == [Blank EXCEPT !.pc = "manage", !.op = op, !.user = u, !.project = p, !.target = v,
                                !.level = l]
  <2>0. op \in {"grant", "revoke"}
    OBVIOUS
  <2>2. Begin(r, x) /\ UNCHANGED <<project, secret, member, star, lock, past>> /\ CanManage(u, p)
    BY <1>6, Zenon DEF AskAccess
  <2> HIDE DEF op
  <2>1. /\ x \in RequestType /\ x.pc = "manage" /\ x.op = op /\ x.key = None /\ x.project = p
        /\ x.user = u /\ x.target = v
    BY <2>0 DEF Blank, RequestType, Nothing, Kinds
  <2> HIDE DEF x
  <2>3. req'[r] = x
    BY <2>2 DEF Begin, Typed
  <2>4. project[p].state = "deleted" /\ ~past.across => IsSuperAdmin(u)
    <3>1. project[p].state = "deleted" /\ ~past.across => member[p][u] = None
      BY DEF IInv, Clean, MembersOf
    <3>2. "maintainer" # None
      BY ProjectsAssumption DEF Levels
    <3> QED BY <2>2, <3>1, <3>2 DEF CanManage
  <2>5. Own(r)'
    BY <2>0, <2>1, <2>2, <2>3, <2>4
       DEF Own, Fits, Holds, InTransaction, SawAll, Latecomer, StaysDead, Mine, Free
  <2> QED BY <2>0, <2>1, <2>2, <2>5, Begins
<1>7. ASSUME NEW p \in Made, NEW k \in Keys, AskDevice(r, p, k) PROVE Typed' /\ IInv'
  <2> DEFINE stale == ~Live(p) \/ past.key[p] # k
             x == [Blank EXCEPT !.pc = "project", !.op = "device", !.project = p, !.key = k,
                                !.stale = stale]
  <2>1. /\ x \in RequestType /\ x.pc = "project" /\ x.op = "device" /\ x.key = k /\ x.project = p
        /\ x.stale = stale
    BY DEF Blank, RequestType, Nothing, Kinds
  <2>2. Begin(r, x) /\ UNCHANGED <<project, secret, member, star, lock, past>>
    BY <1>7, Zenon DEF AskDevice
  <2>3. \E q \in Projects : k = past.key[q]
    BY <1>7, KeysAre DEF AskDevice, IInv
  <2> HIDE DEF x
  <2>4. req'[r] = x
    BY <2>2 DEF Begin, Typed
  <2>5. Own(r)'
    BY <2>1, <2>2, <2>4 DEF Own, Fits, Holds, InTransaction, SawAll, Latecomer, StaysDead, Mine, Free, Live
  <2> QED BY <2>1, <2>2, <2>3, <2>5, Begins
<1> QED BY <1>1, <1>2, <1>3, <1>4, <1>5, <1>6, <1>7 DEF Ask

----------------------------------------------------------------------------
(* Statements that write no row.                                           *)

\* A request goes on to its next statement.
LEMMA Moves ==
  ASSUME Typed, IInv, NEW r \in Requests, NEW x \in RequestType,
         req' = [req EXCEPT ![r] = x], x.op = req[r].op, x.key = req[r].key,
         UNCHANGED <<project, secret, member, star, past>>,
         lock' \in [Projects -> Requests \cup {None}],
         \A p \in Projects, q \in Requests : q # r /\ lock[p] = q => lock'[p] = q,
         Own(r)'
  PROVE  Typed' /\ IInv'
<1>1. req' \in [Requests -> RequestType] /\ req'[r] = x /\ \A q \in Requests : q # r => req'[q] = req[q]
  BY DEF Typed
<1>2. /\ req'[r].op = "rotate" =>
           /\ \A p \in Projects : past.key[p] # req'[r].key
           /\ \A q \in Requests \ {r} : req[q].key # req'[r].key
      /\ \A q \in Requests \ {r} : req[q].op = "rotate" => req[q].key # req'[r].key
  BY <1>1 DEF IInv, NewKeys
<1>3. /\ project' \in [Projects -> [state: {"free", "live", "deleted"}, name: Names \cup {None}]]
      /\ \A p \in Projects : project'[p].state = project[p].state
  BY DEF Typed
<1> HIDE DEF IInv, Typed, Own
<1> QED BY <1>1, <1>2, <1>3, Quiet

\* What a request under way is.
LEMMA OwnIs ==
  ASSUME Typed, IInv, NEW r \in Requests
  PROVE  /\ Own(r) /\ req[r] \in RequestType /\ req[r].op \in Kinds
         /\ Fits(r) /\ Holds(r) /\ SawAll(r) /\ Latecomer(r) /\ StaysDead(r)
         /\ \A pc : Goes(r, pc) => req' = [req EXCEPT ![r] = [req[r] EXCEPT !.pc = pc]]
BY DEF IInv, Own, Typed, RequestType, Goes

\* A request ends, with or without a transaction, and has written nothing.
LEMMA Answered ==
  ASSUME Typed, IInv, NEW r \in Requests, Ends(r), Release(r) \/ UNCHANGED lock,
         UNCHANGED <<project, secret, member, star, past>>
  PROVE  Typed' /\ IInv'
<1>1. /\ lock' \in [Projects -> Requests \cup {None}]
      /\ \A p \in Projects, q \in Requests : q # r /\ lock[p] = q => lock'[p] = q
  BY ReleaseIs DEF Typed
<1>2. /\ project' \in [Projects -> [state: {"free", "live", "deleted"}, name: Names \cup {None}]]
      /\ \A p \in Projects : project'[p].state = project[p].state
  BY DEF Typed
<1>3. /\ req' \in [Requests -> RequestType]
      /\ \A q \in Requests : q # r => req'[q] = req[q]
      /\ req'[r].op = "create" /\ Own(r)'
      /\ \A q \in Requests \ {r} : req[q].op = "rotate" => req[q].key # req'[r].key
  BY EndsIs
<1> HIDE DEF IInv, Typed, Own
<1> QED BY <1>1, <1>2, <1>3, Quiet

\* All but the statement stays.
Alike(x, y) ==
  /\ x.op = y.op /\ x.key = y.key /\ x.project = y.project /\ x.user = y.user
  /\ x.target = y.target /\ x.stale = y.stale

LEMMA GoesIs ==
  ASSUME Typed, NEW r \in Requests,
         NEW pc \in {"name", "insert", "write", "drop", "secrets", "remove", "star", "target", "key"},
         Goes(r, pc)
  PROVE  \E x \in RequestType :
           /\ req' = [req EXCEPT ![r] = x] /\ req'[r] = x
           /\ x.pc = pc /\ Alike(x, req[r]) /\ x.doomed = req[r].doomed
<1> DEFINE x == [req[r] EXCEPT !.pc = pc]
<1>0. req[r] \in RequestType
  BY DEF Typed
<1>1. x \in RequestType /\ x.pc = pc /\ Alike(x, req[r]) /\ x.doomed = req[r].doomed
  BY <1>0 DEF RequestType, Alike
<1>2. req' = [req EXCEPT ![r] = x]
  BY DEF Goes, Typed
<1> HIDE DEF x
<1>3. req'[r] = x
  BY <1>2 DEF Typed
<1> QED BY <1>1, <1>2, <1>3

LEMMA SameLocks ==
  ASSUME Typed, UNCHANGED lock
  PROVE  /\ lock' \in [Projects -> Requests \cup {None}]
         /\ \A p \in Projects, q, r \in Requests : q # r /\ lock[p] = q => lock'[p] = q
BY DEF Typed

\* The name is free, and the request goes on.
LEMMA NameKeeps ==
  ASSUME Typed, IInv, NEW r \in Requests, ValidateProjectName(r)
  PROVE  Typed' /\ IInv'
<1>1. UNCHANGED <<project, secret, member, star, past>> /\ req[r].pc = "name"
  BY DEF ValidateProjectName, At
<1>2. CASE Ends(r) /\ Release(r)
  BY <1>1, <1>2, Answered
<1>3. CASE Goes(r, IF req[r].op = "create" THEN "insert" ELSE "write") /\ UNCHANGED lock
  <2> DEFINE pc == IF req[r].op = "create" THEN "insert" ELSE "write"
  <2>1. Own(r) /\ req[r].op \in {"create", "rename"}
    BY <1>1, OwnIs DEF Fits, Kinds
  <2>2. pc \in {"insert", "write"} /\ Goes(r, pc)
    BY <1>3
  <2>3. PICK x \in RequestType : /\ req' = [req EXCEPT ![r] = x] /\ req'[r] = x
                                /\ x.pc = pc /\ Alike(x, req[r]) /\ x.doomed = req[r].doomed
    BY <2>2, GoesIs
  <2>4. Fits(r)'
    BY <1>1, <2>1, <2>3 DEF Own, Fits, Free, Alike, Mine
  <2>5. Holds(r)'
    BY <1>1, <1>3, <2>1, <2>3 DEF Own, Holds, InTransaction, Live, Alike, Mine
  <2>6. SawAll(r)' /\ Latecomer(r)' /\ StaysDead(r)'
    BY <2>1, <2>3 DEF Own, SawAll, Latecomer, StaysDead, Alike
  <2>7. Own(r)' /\ x.op = req[r].op /\ x.key = req[r].key
    BY <2>3, <2>4, <2>5, <2>6 DEF Own, Alike
  <2> HIDE DEF IInv, Typed, Own
  <2> QED BY <1>1, <1>3, <2>3, <2>7, SameLocks, Moves
<1> QED BY <1>2, <1>3 DEF ValidateProjectName

LEMMA LockKeeps ==
  ASSUME Typed, IInv, NEW r \in Requests, LockProject(r)
  PROVE  Typed' /\ IInv'
<1>1. /\ UNCHANGED <<project, secret, member, star, past>>
      /\ req[r].pc = "lock" /\ lock[Mine(r)] = None
  BY DEF LockProject, At
<1>2. Own(r) /\ req[r].op \in {"rename", "rotate", "delete"} /\ Mine(r) \in Projects
  BY <1>1, OwnIs DEF Fits, Kinds
<1>3. CASE Ends(r) /\ UNCHANGED lock
  BY <1>1, <1>3, Answered
<1>4. CASE Live(Mine(r)) /\ Goes(r, FirstStatement(r)) /\ Acquire(r)
  <2> DEFINE pc == FirstStatement(r)
  <2>1. /\ pc \in {"name", "drop", "secrets"}
        /\ pc = "name" <=> req[r].op = "rename"
        /\ pc = "drop" <=> req[r].op = "rotate"
        /\ pc = "secrets" <=> req[r].op = "delete"
    BY <1>2 DEF FirstStatement
  <2> HIDE DEF pc
  <2>2. PICK x \in RequestType : /\ req' = [req EXCEPT ![r] = x] /\ req'[r] = x
                                /\ x.pc = pc /\ Alike(x, req[r]) /\ x.doomed = req[r].doomed
    BY <1>4, <2>1, GoesIs DEF pc
  <2>3. /\ lock' \in [Projects -> Requests \cup {None}]
        /\ lock'[Mine(r)] = r
        /\ \A p \in Projects : p # Mine(r) => lock'[p] = lock[p]
    BY <1>2, <1>4 DEF Acquire, Typed
  <2>4. \A p \in Projects, q \in Requests : q # r /\ lock[p] = q => lock'[p] = q
    BY <1>1, <2>3, ProjectsAssumption
  <2>5. Fits(r)'
    BY <1>1, <1>2, <2>1, <2>2 DEF Own, Fits, Free, Alike, Mine
  <2>6. Holds(r)'
    BY <1>1, <1>4, <2>2, <2>3 DEF Holds, Live, Alike, Mine
  <2>7. SawAll(r)' /\ Latecomer(r)' /\ StaysDead(r)'
    BY <1>2, <2>1, <2>2 DEF Own, SawAll, Latecomer, StaysDead, Alike
  <2>8. Own(r)' /\ x.op = req[r].op /\ x.key = req[r].key
    BY <2>2, <2>5, <2>6, <2>7 DEF Own, Alike
  <2> HIDE DEF IInv, Typed, Own
  <2> QED BY <1>1, <2>2, <2>3, <2>4, <2>8, Moves
<1> QED BY <1>3, <1>4 DEF LockProject

----------------------------------------------------------------------------
LEMMA KeysOfType ==
  ASSUME Typed, NEW p \in Projects
  PROVE  KeysOf(p) \in SUBSET Keys /\ MembersOf(p) \in SUBSET Users /\ star[p] \in SUBSET Users
BY DEF Typed, KeysOf, MembersOf, Row

\* The four deletes of a transaction.
LEMMA DoomKeeps ==
  ASSUME Typed, IInv, NEW r \in Requests,
         \/ DropSecrets(r) \/ DeleteSecretsByProject(r)
         \/ DeleteFavoritesByProject(r) \/ RemoveAllForProject(r)
  PROVE  Typed' /\ IInv'
<1>1. UNCHANGED <<project, secret, member, star, lock, past>>
  BY DEF DropSecrets, DeleteSecretsByProject, DeleteFavoritesByProject, RemoveAllForProject
<1>2. Own(r) /\ req[r] \in RequestType
  BY OwnIs
<1>3. /\ req[r].pc \in {"drop", "secrets", "stars", "members"}
      /\ req[r].op \in {"rotate", "delete"}
      /\ req[r].op = "rotate" <=> req[r].pc = "drop"
      /\ Mine(r) \in Projects /\ lock[Mine(r)] = r /\ Live(Mine(r))
  <2>1. req[r].pc \in {"drop", "secrets", "stars", "members"}
    BY DEF DropSecrets, DeleteSecretsByProject, DeleteFavoritesByProject, RemoveAllForProject, At
  <2>2. req[r].op \in {"rotate", "delete"} /\ (req[r].op = "rotate" <=> req[r].pc = "drop")
    BY <2>1, OwnIs DEF Fits, Kinds
  <2> QED BY <2>1, <2>2, OwnIs DEF Fits, Holds, InTransaction
<1>4. KeysOf(Mine(r)) \in SUBSET Keys /\ MembersOf(Mine(r)) \in SUBSET Users /\ star[Mine(r)] \in SUBSET Users
  BY <1>3, KeysOfType
<1> DEFINE d == req[r].doomed
<1>5. /\ d.keys \in SUBSET Keys /\ d.stars \in SUBSET Users /\ d.members \in SUBSET Users
      /\ d = [keys |-> d.keys, stars |-> d.stars, members |-> d.members]
  BY <1>2 DEF RequestType
<1>6. \E pc \in {"insert", "stars", "members", "remove"} :
      \E K \in SUBSET Keys, S \in SUBSET Users, M \in SUBSET Users :
        /\ req' = [req EXCEPT ![r] = [req[r] EXCEPT !.pc = pc,
                     !.doomed = [keys |-> K, stars |-> S, members |-> M]]]
        /\ pc = "insert" <=> req[r].op = "rotate"
        /\ K = KeysOf(Mine(r))
        /\ pc \in {"members", "remove"} /\ ~past.across => star[Mine(r)] \subseteq S
        /\ pc = "remove" /\ ~past.across => MembersOf(Mine(r)) \subseteq M
  <2>1. CASE DropSecrets(r)
    <3>1. req' = [req EXCEPT ![r] = [req[r] EXCEPT !.pc = "insert",
                    !.doomed = [keys |-> KeysOf(Mine(r)), stars |-> d.stars, members |-> d.members]]]
      <4>1. req' = [req EXCEPT ![r] = [req[r] EXCEPT !.pc = "insert",
                      !.doomed = [d EXCEPT !.keys = KeysOf(Mine(r))]]]
        <5>1. PICK v : v = KeysOf(Mine(r))
          OBVIOUS
        <5>2. req' = [req EXCEPT ![r] = [req[r] EXCEPT !.pc = "insert", !.doomed.keys = v]]
          BY <2>1, <5>1 DEF DropSecrets
        <5>3. [req[r] EXCEPT !.pc = "insert", !.doomed.keys = v]
                = [req[r] EXCEPT !.pc = "insert", !.doomed = [d EXCEPT !.keys = v]]
          BY <1>2 DEF RequestType
        <5> QED BY <5>1, <5>2, <5>3, Zenon
      <4>2. [d EXCEPT !.keys = KeysOf(Mine(r))] = [keys |-> KeysOf(Mine(r)), stars |-> d.stars, members |-> d.members]
        BY <1>5
      <4> HIDE DEF d
      <4> QED BY <4>1, <4>2
    <3>2. req[r].op = "rotate"
      BY <1>3, <2>1 DEF DropSecrets, At
    <3> QED BY <1>4, <1>5, <3>1, <3>2
  <2>2. CASE DeleteSecretsByProject(r)
    <3>1. req' = [req EXCEPT ![r] = [req[r] EXCEPT !.pc = "stars",
                    !.doomed = [keys |-> KeysOf(Mine(r)), stars |-> d.stars, members |-> d.members]]]
      <4>1. req' = [req EXCEPT ![r] = [req[r] EXCEPT !.pc = "stars",
                      !.doomed = [d EXCEPT !.keys = KeysOf(Mine(r))]]]
        <5>1. PICK v : v = KeysOf(Mine(r))
          OBVIOUS
        <5>2. req' = [req EXCEPT ![r] = [req[r] EXCEPT !.pc = "stars", !.doomed.keys = v]]
          BY <2>2, <5>1 DEF DeleteSecretsByProject
        <5>3. [req[r] EXCEPT !.pc = "stars", !.doomed.keys = v]
                = [req[r] EXCEPT !.pc = "stars", !.doomed = [d EXCEPT !.keys = v]]
          BY <1>2 DEF RequestType
        <5> QED BY <5>1, <5>2, <5>3, Zenon
      <4>2. [d EXCEPT !.keys = KeysOf(Mine(r))] = [keys |-> KeysOf(Mine(r)), stars |-> d.stars, members |-> d.members]
        BY <1>5
      <4> HIDE DEF d
      <4> QED BY <4>1, <4>2
    <3>2. req[r].op # "rotate"
      BY <1>3, <2>2 DEF DeleteSecretsByProject, At
    <3> QED BY <1>4, <1>5, <3>1, <3>2
  <2>3. CASE DeleteFavoritesByProject(r)
    <3>1. req' = [req EXCEPT ![r] = [req[r] EXCEPT !.pc = "members",
                    !.doomed = [keys |-> d.keys, stars |-> star[Mine(r)], members |-> d.members]]]
      <4>1. req' = [req EXCEPT ![r] = [req[r] EXCEPT !.pc = "members",
                      !.doomed = [d EXCEPT !.stars = star[Mine(r)]]]]
        <5>1. PICK v : v = star[Mine(r)]
          OBVIOUS
        <5>2. req' = [req EXCEPT ![r] = [req[r] EXCEPT !.pc = "members", !.doomed.stars = v]]
          BY <2>3, <5>1 DEF DeleteFavoritesByProject
        <5>3. [req[r] EXCEPT !.pc = "members", !.doomed.stars = v]
                = [req[r] EXCEPT !.pc = "members", !.doomed = [d EXCEPT !.stars = v]]
          BY <1>2 DEF RequestType
        <5> QED BY <5>1, <5>2, <5>3, Zenon
      <4>2. [d EXCEPT !.stars = star[Mine(r)]] = [keys |-> d.keys, stars |-> star[Mine(r)], members |-> d.members]
        BY <1>5
      <4> HIDE DEF d
      <4> QED BY <4>1, <4>2
    <3>2. req[r].op # "rotate" /\ d.keys = KeysOf(Mine(r))
      BY <1>2, <1>3, <2>3 DEF DeleteFavoritesByProject, At, Own, SawAll
    <3> QED BY <1>4, <1>5, <3>1, <3>2
  <2>4. CASE RemoveAllForProject(r)
    <3>1. req' = [req EXCEPT ![r] = [req[r] EXCEPT !.pc = "remove",
                    !.doomed = [keys |-> d.keys, stars |-> d.stars, members |-> MembersOf(Mine(r))]]]
      <4>1. req' = [req EXCEPT ![r] = [req[r] EXCEPT !.pc = "remove",
                      !.doomed = [d EXCEPT !.members = MembersOf(Mine(r))]]]
        <5>1. PICK v : v = MembersOf(Mine(r))
          OBVIOUS
        <5>2. req' = [req EXCEPT ![r] = [req[r] EXCEPT !.pc = "remove", !.doomed.members = v]]
          BY <2>4, <5>1 DEF RemoveAllForProject
        <5>3. [req[r] EXCEPT !.pc = "remove", !.doomed.members = v]
                = [req[r] EXCEPT !.pc = "remove", !.doomed = [d EXCEPT !.members = v]]
          BY <1>2 DEF RequestType
        <5> QED BY <5>1, <5>2, <5>3, Zenon
      <4>2. [d EXCEPT !.members = MembersOf(Mine(r))] = [keys |-> d.keys, stars |-> d.stars, members |-> MembersOf(Mine(r))]
        BY <1>5
      <4> HIDE DEF d
      <4> QED BY <4>1, <4>2
    <3>2. /\ req[r].op # "rotate" /\ d.keys = KeysOf(Mine(r))
          /\ ~past.across => star[Mine(r)] \subseteq d.stars
      BY <1>2, <1>3, <2>4 DEF RemoveAllForProject, At, Own, SawAll
    <3> QED BY <1>4, <1>5, <3>1, <3>2
  <2> QED BY <2>1, <2>2, <2>3, <2>4
<1>7. PICK pc \in {"insert", "stars", "members", "remove"},
           K \in SUBSET Keys, S \in SUBSET Users, M \in SUBSET Users :
        /\ req' = [req EXCEPT ![r] = [req[r] EXCEPT !.pc = pc,
                     !.doomed = [keys |-> K, stars |-> S, members |-> M]]]
        /\ pc = "insert" <=> req[r].op = "rotate"
        /\ K = KeysOf(Mine(r))
        /\ pc \in {"members", "remove"} /\ ~past.across => star[Mine(r)] \subseteq S
        /\ pc = "remove" /\ ~past.across => MembersOf(Mine(r)) \subseteq M
  BY <1>6, Zenon
<1>8. PICK x \in RequestType :
        /\ req' = [req EXCEPT ![r] = x] /\ req'[r] = x
        /\ x.pc = pc /\ Alike(x, req[r])
        /\ x.doomed = [keys |-> K, stars |-> S, members |-> M]
  <2>1. req' = [req EXCEPT ![r] = [req[r] EXCEPT !.pc = pc,
                  !.doomed = [keys |-> K, stars |-> S, members |-> M]]]
    BY <1>7
  <2> DEFINE new == [keys |-> K, stars |-> S, members |-> M]
             x == [req[r] EXCEPT !.pc = pc, !.doomed = new]
  <2>2. x \in RequestType /\ x.pc = pc /\ Alike(x, req[r]) /\ x.doomed = new
    <3>1. new \in [keys: SUBSET Keys, stars: SUBSET Users, members: SUBSET Users]
      OBVIOUS
    <3> HIDE DEF new
    <3>2. x \in RequestType
      BY <1>2, <3>1 DEF RequestType
    <3>3. x.pc = pc /\ Alike(x, req[r]) /\ x.doomed = new
      BY <1>2 DEF RequestType, Alike
    <3> QED BY <3>2, <3>3
  <2>3. req' = [req EXCEPT ![r] = x]
    BY <2>1
  <2> HIDE DEF x
  <2>4. req'[r] = x
    BY <2>3 DEF Typed
  <2> QED BY <2>2, <2>3, <2>4
<1>9. Mine(r)' = Mine(r) /\ KeysOf(Mine(r))' = KeysOf(Mine(r)) /\ MembersOf(Mine(r))' = MembersOf(Mine(r))
  BY <1>1, <1>8 DEF Mine, Alike, KeysOf, MembersOf
<1>10. Fits(r)'
  BY <1>1, <1>2, <1>3, <1>7, <1>8, <1>9 DEF Own, Fits, Free, Alike
<1>11. Holds(r)'
  BY <1>1, <1>3, <1>9 DEF Holds, Live
<1>12. SawAll(r)'
  BY <1>1, <1>7, <1>8, <1>9 DEF SawAll
<1>13. Latecomer(r)' /\ StaysDead(r)'
  BY <1>1, <1>3, <1>7, <1>8, <1>9 DEF Latecomer, StaysDead, Live, Alike
<1>14. Own(r)' /\ x.op = req[r].op /\ x.key = req[r].key
  BY <1>8, <1>10, <1>11, <1>12, <1>13 DEF Own, Alike
<1> HIDE DEF IInv, Typed, Own
<1> QED BY <1>1, <1>8, <1>14, SameLocks, Moves

LEMMA ReadKeeps ==
  ASSUME Typed, IInv, NEW r \in Requests,
         GetProject(r) \/ IsFavorite(r) \/ RequireManage(r) \/ ValidateProjectCredentials(r)
  PROVE  Typed' /\ IInv'
<1>1. UNCHANGED <<project, secret, member, star, lock, past>>
  BY DEF GetProject, IsFavorite, RequireManage, ValidateProjectCredentials
<1>2. Own(r) /\ req[r] \in RequestType /\ req[r].op \in Kinds
  BY OwnIs
<1>3. CASE Ends(r)
  BY <1>1, <1>3, Answered
<1>4. CASE Live(Mine(r)) /\ At(r, "project") /\ Goes(r, IF req[r].op = "star" THEN "star" ELSE "key")
  <2> DEFINE pc == IF req[r].op = "star" THEN "star" ELSE "key"
  <2>1. req[r].pc = "project" /\ req[r].op \in {"star", "device"} /\ Mine(r) \in Projects
    BY <1>2, <1>4 DEF At, Own, Fits, Kinds
  <2>2. PICK x \in RequestType : /\ req' = [req EXCEPT ![r] = x] /\ req'[r] = x
                                /\ x.pc = pc /\ Alike(x, req[r]) /\ x.doomed = req[r].doomed
    BY <1>4, GoesIs
  <2>3. Mine(r)' = Mine(r) /\ pc \in {"star", "key"} /\ (pc = "star" <=> req[r].op = "star")
    BY <2>1, <2>2 DEF Mine, Alike
  <2> HIDE DEF pc
  <2>4. Fits(r)'
    BY <1>1, <1>2, <2>1, <2>2, <2>3 DEF Own, Fits, Free, Alike
  <2>5. Holds(r)' /\ SawAll(r)' /\ Latecomer(r)' /\ StaysDead(r)'
    BY <1>1, <1>2, <1>4, <2>1, <2>2, <2>3
       DEF Own, Holds, InTransaction, SawAll, Latecomer, StaysDead, Live, Alike
  <2>6. Own(r)' /\ x.op = req[r].op /\ x.key = req[r].key
    BY <2>2, <2>4, <2>5 DEF Own, Alike
  <2> HIDE DEF IInv, Typed, Own
  <2> QED BY <1>1, <2>2, <2>6, SameLocks, Moves
<1>5. CASE IsFavorite(r)
  <2> DEFINE f == req[r].user \in star[Mine(r)]
             x == [req[r] EXCEPT !.pc = "toggle", !.favorite = f]
  <2>1. req[r].pc = "star" /\ req[r].op = "star" /\ Mine(r) \in Projects
    BY <1>2, <1>5 DEF IsFavorite, At, Own, Fits, Kinds
  <2>2. x \in RequestType /\ x.pc = "toggle" /\ Alike(x, req[r]) /\ x.doomed = req[r].doomed
    <3>1. f \in BOOLEAN
      OBVIOUS
    <3> HIDE DEF f
    <3>2. x \in RequestType
      BY <1>2, <3>1 DEF RequestType
    <3>3. x.pc = "toggle" /\ Alike(x, req[r]) /\ x.doomed = req[r].doomed
      BY <1>2 DEF RequestType, Alike
    <3> QED BY <3>2, <3>3
  <2>3. req' = [req EXCEPT ![r] = x]
    BY <1>2, <1>5 DEF IsFavorite, RequestType, Typed
  <2> HIDE DEF x
  <2>4. req'[r] = x /\ Mine(r)' = Mine(r)
    BY <2>2, <2>3 DEF Typed, Mine, Alike
  <2>5. Own(r)' /\ x.op = req[r].op /\ x.key = req[r].key
    BY <1>1, <1>2, <2>1, <2>2, <2>4
       DEF Own, Fits, Free, Holds, InTransaction, SawAll, Latecomer, StaysDead, Alike
  <2> HIDE DEF IInv, Typed, Own
  <2> QED BY <1>1, <2>2, <2>3, <2>5, SameLocks, Moves
<1>6. CASE RequireManage(r) /\ Goes(r, "target")
  <2>1. req[r].pc = "manage" /\ req[r].op \in {"grant", "revoke"} /\ Mine(r) \in Projects
    BY <1>2, <1>6 DEF RequireManage, At, Own, Fits, Kinds
  <2>2. PICK x \in RequestType : /\ req' = [req EXCEPT ![r] = x] /\ req'[r] = x
                                /\ x.pc = "target" /\ Alike(x, req[r]) /\ x.doomed = req[r].doomed
    BY <1>6, GoesIs
  <2>3. Mine(r)' = Mine(r)
    BY <2>2 DEF Mine, Alike
  <2>4. Own(r)' /\ x.op = req[r].op /\ x.key = req[r].key
    BY <1>1, <1>2, <2>1, <2>2, <2>3
       DEF Own, Fits, Free, Holds, InTransaction, SawAll, Latecomer, StaysDead, Alike
  <2> HIDE DEF IInv, Typed, Own
  <2> QED BY <1>1, <2>2, <2>4, SameLocks, Moves
<1>7. CASE ValidateProjectCredentials(r) /\ Matches(Mine(r), req[r].key)
  <2> DEFINE stale == req[r].stale
             x == [Blank EXCEPT !.pc = "admitted", !.stale = stale]
  <2>1. req[r].pc = "key" /\ req[r].op = "device" /\ Mine(r) \in Projects
    BY <1>2, <1>7 DEF ValidateProjectCredentials, At, Own, Fits, Kinds
  <2>2. ~req[r].stale
    <3>1. req[r].key \in KeysOf(Mine(r))
      BY <1>7 DEF Matches, KeysOf
    <3>2. Live(Mine(r)) /\ req[r].key = past.key[Mine(r)]
      BY <2>1, <3>1, KeysAre DEF IInv
    <3> QED BY <1>2, <2>1, <3>2 DEF Own, StaysDead
  <2>3. /\ x \in RequestType /\ x.pc = "admitted" /\ x.op = "create" /\ x.key = None
        /\ x.stale = req[r].stale
    <3>1. stale \in BOOLEAN
      BY <1>2 DEF RequestType
    <3> HIDE DEF stale
    <3>2. /\ x \in RequestType /\ x.pc = "admitted" /\ x.op = "create" /\ x.key = None
          /\ x.stale = stale
      BY <3>1 DEF Blank, RequestType, Nothing, Kinds
    <3> QED BY <3>2 DEF stale
  <2>4. req' = [req EXCEPT ![r] = x]
    BY <1>7, Zenon DEF ValidateProjectCredentials
  <2> HIDE DEF x
  <2>5. req' \in [Requests -> RequestType] /\ req'[r] = x /\ \A q \in Requests : q # r => req'[q] = req[q]
    BY <2>3, <2>4 DEF Typed
  <2>6. Own(r)'
    BY <2>2, <2>3, <2>5 DEF Own, Fits, Holds, InTransaction, SawAll, Latecomer, StaysDead
  <2>7. \A q \in Requests \ {r} : req[q].op = "rotate" => req[q].key # req'[r].key
    BY <2>3, <2>5, ProjectsAssumption DEF IInv, Own, Fits
  <2>8. /\ project' \in [Projects -> [state: {"free", "live", "deleted"}, name: Names \cup {None}]]
        /\ \A p \in Projects : project'[p].state = project[p].state
    BY <1>1 DEF Typed
  <2> HIDE DEF IInv, Typed, Own
  <2> QED BY <1>1, <2>3, <2>5, <2>6, <2>7, <2>8, SameLocks, Quiet
<1> QED BY <1>3, <1>4, <1>5, <1>6, <1>7
     DEF GetProject, RequireManage, ValidateProjectCredentials

----------------------------------------------------------------------------
(* Statements and commits that write rows.                                 *)

\* What a commit on one project leaves alone.
LEMMA Elsewhere ==
  ASSUME Typed, IInv, NEW r \in Requests, NEW t \in Projects, Ends(r),
         \A p \in Projects, q \in Requests : q # r /\ lock[p] = q => lock'[p] = q,
         \A p \in Projects : p # t =>
           /\ project'[p] = project[p] /\ secret'[p] = secret[p] /\ member'[p] = member[p]
           /\ star'[p] = star[p] /\ past'.key[p] = past.key[p],
         past.across => past'.across
  PROVE  /\ req' \in [Requests -> RequestType] /\ Own(r)'
         /\ req'[r].op = "create" /\ req'[r].key = None
         /\ \A q \in Requests : q # r => req'[q] = req[q] /\ Mine(q)' = Mine(q)
         /\ \A q \in Requests : q # r /\ (req[q].op # "create" => Mine(q) # t) => Own(q)'
         /\ \A p \in Projects : p # t =>
              /\ (Live(p)' <=> Live(p)) /\ MembersOf(p)' = MembersOf(p) /\ KeysOf(p)' = KeysOf(p)
              /\ IF Live(p)' THEN \E row \in secret'[p] : secret'[p] = {row} /\ row.key = past'.key[p]
                             ELSE secret'[p] = {}
              /\ past'.across \/ (project'[p].state = "deleted" => MembersOf(p)' = {} /\ star'[p] = {})
<1>1. /\ req' \in [Requests -> RequestType] /\ Own(r)'
      /\ req'[r].op = "create" /\ req'[r].key = None
      /\ \A q \in Requests : q # r => req'[q] = req[q]
  BY EndsIs
<1>2. \A q \in Requests : q # r => Mine(q)' = Mine(q)
  BY <1>1 DEF Mine
<1>3. \A p \in Projects : p # t =>
        (Live(p)' <=> Live(p)) /\ (Free(p)' <=> Free(p)) /\ MembersOf(p)' = MembersOf(p) /\ KeysOf(p)' = KeysOf(p)
  BY DEF Live, Free, MembersOf, KeysOf
<1>4. ASSUME NEW q \in Requests, q # r, req[q].op # "create" => Mine(q) # t PROVE Own(q)'
  <2>1. Own(q) /\ req[q].op \in Kinds /\ req'[q] = req[q] /\ Mine(q)' = Mine(q)
    BY <1>1, <1>2, <1>4, OwnIs
  <2>2. req[q].op # "create" => Mine(q) \in Projects /\ Mine(q) # t
    BY <1>4, <2>1 DEF Own, Fits
  <2>3. Fits(q)'
    BY <1>3, <2>1, <2>2 DEF Own, Fits
  <2>4. CASE req[q].op = "create"
    <3>1. Holds(q)' /\ SawAll(q)' /\ Latecomer(q)' /\ StaysDead(q)'
      BY <2>1, <2>4 DEF Own, Fits, Holds, InTransaction, SawAll, Latecomer, StaysDead
    <3> QED BY <2>3, <3>1 DEF Own
  <2>5. CASE req[q].op # "create"
    <3>1. Holds(q)'
      BY <1>3, <1>4, <2>1, <2>2, <2>5 DEF Own, Holds, InTransaction
    <3>2. SawAll(q)' /\ Latecomer(q)' /\ StaysDead(q)'
      BY <1>3, <2>1, <2>2, <2>5 DEF Own, SawAll, Latecomer, StaysDead
    <3> QED BY <2>3, <3>1, <3>2 DEF Own
  <2> QED BY <2>4, <2>5
<1>5. ASSUME NEW p \in Projects, p # t
      PROVE  /\ IF Live(p)' THEN \E row \in secret'[p] : secret'[p] = {row} /\ row.key = past'.key[p]
                            ELSE secret'[p] = {}
             /\ past'.across \/ (project'[p].state = "deleted" => MembersOf(p)' = {} /\ star'[p] = {})
  BY <1>3, <1>5 DEF IInv, OneRow, Clean
<1> QED BY <1>1, <1>2, <1>3, <1>4, <1>5

\* One transaction at a time.
LEMMA Alone ==
  ASSUME Typed, IInv, NEW r \in Requests, InTransaction(r), NEW q \in Requests, q # r,
         Mine(q) = Mine(r)
  PROVE  ~InTransaction(q)
BY OwnIs DEF Holds

LEMMA UpdateKeeps ==
  ASSUME Typed, IInv, NEW r \in Requests, UpdateProject(r)
  PROVE  Typed' /\ IInv'
<1>1. /\ UNCHANGED <<secret, member, star, past>> /\ Ends(r) /\ Release(r)
      /\ project' = [project EXCEPT ![Mine(r)].name = req[r].name]
  BY DEF UpdateProject
<1>2. /\ project' \in [Projects -> [state: {"free", "live", "deleted"}, name: Names \cup {None}]]
      /\ \A p \in Projects : project'[p].state = project[p].state
  <2> DEFINE n == req[r].name
             t == Mine(r)
  <2>1. n \in Names \cup {None}
    BY DEF Typed, RequestType
  <2>2. project' = [project EXCEPT ![t] = [project[t] EXCEPT !.name = n]]
    BY <1>1 DEF Typed
  <2> HIDE DEF n, t
  <2>3. ASSUME NEW p \in Projects
        PROVE  /\ [project[p] EXCEPT !.name = n] \in [state: {"free", "live", "deleted"}, name: Names \cup {None}]
               /\ [project[p] EXCEPT !.name = n].state = project[p].state
    BY <2>1 DEF Typed
  <2> QED BY <2>2, <2>3 DEF Typed
<1>3. /\ req' \in [Requests -> RequestType]
      /\ \A q \in Requests : q # r => req'[q] = req[q]
      /\ req'[r].op = "create" /\ Own(r)'
      /\ \A q \in Requests \ {r} : req[q].op = "rotate" => req[q].key # req'[r].key
  BY <1>1, EndsIs
<1>4. /\ lock' \in [Projects -> Requests \cup {None}]
      /\ \A p \in Projects, q \in Requests : q # r /\ lock[p] = q => lock'[p] = q
  BY <1>1, ReleaseIs
<1> HIDE DEF IInv, Typed, Own
<1> QED BY <1>1, <1>2, <1>3, <1>4, Quiet

LEMMA SetFavoriteKeeps ==
  ASSUME Typed, IInv, NEW r \in Requests, SetFavorite(r)
  PROVE  Typed' /\ IInv'
<1> DEFINE t == Mine(r)
           s == IF req[r].favorite THEN star[t] \ {req[r].user} ELSE star[t] \cup {req[r].user}
           late == past.across \/ Deleting(t)
<1>1. req[r].pc = "toggle" /\ req[r].op = "star" /\ t \in Projects /\ req[r].user \in Users
  BY OwnIs DEF SetFavorite, At, Fits, Kinds
<1>2. /\ UNCHANGED <<project, secret, member, lock>> /\ Ends(r)
      /\ star' = [star EXCEPT ![t] = s]
      /\ past' = [past EXCEPT !.across = late]
  BY DEF SetFavorite
<1>3. /\ s \in SUBSET Users /\ late \in BOOLEAN /\ (past.across => late) /\ (Deleting(t) => late)
  BY <1>1 DEF Typed
<1> HIDE DEF s, late, t
<1>4. /\ star' \in [Projects -> SUBSET Users] /\ \A p \in Projects : p # t => star'[p] = star[p]
      /\ past' \in [key: [Projects -> Keys \cup {None}], across: BOOLEAN]
      /\ past'.key = past.key /\ past'.across = late
  BY <1>2, <1>3 DEF Typed
<1>5. /\ req' \in [Requests -> RequestType] /\ Own(r)'
      /\ req'[r].op = "create" /\ req'[r].key = None
      /\ \A q \in Requests : q # r => req'[q] = req[q] /\ Mine(q)' = Mine(q)
      /\ \A q \in Requests : q # r /\ (req[q].op # "create" => Mine(q) # t) => Own(q)'
      /\ \A p \in Projects : p # t =>
           past'.across \/ (project'[p].state = "deleted" => MembersOf(p)' = {} /\ star'[p] = {})
  BY <1>1, <1>2, <1>3, <1>4, Elsewhere, SameLocks
<1>6. Typed'
  BY <1>2, <1>4, <1>5 DEF Typed
<1>7. ASSUME NEW q \in Requests, q # r, req[q].op # "create", Mine(q) = t PROVE Own(q)'
  <2>1. Own(q) /\ req'[q] = req[q] /\ Mine(q)' = Mine(q)
    BY <1>5, <1>7, OwnIs
  <2>2. Fits(q)' /\ Holds(q)' /\ StaysDead(q)'
    BY <1>2, <1>4, <2>1 DEF Own, Fits, Free, Holds, InTransaction, Live, StaysDead
  <2>3. Latecomer(q)'
    BY <1>2, <1>3, <1>4, <2>1 DEF Own, Latecomer
  <2>4. req[q].pc \in {"members", "remove"} => past'.across
    BY <1>3, <1>4, <1>7 DEF Deleting
  <2>5. KeysOf(Mine(q))' = KeysOf(Mine(q))
    BY <1>2, <2>1 DEF KeysOf
  <2>6. SawAll(q)'
    BY <2>1, <2>4, <2>5 DEF Own, SawAll
  <2> QED BY <2>2, <2>3, <2>6 DEF Own
<1>8. \A q \in Requests : Own(q)'
  BY <1>5, <1>7
<1>9. NewKeys'
  <2> SUFFICES ASSUME NEW q \in Requests, req'[q].op = "rotate"
      PROVE  /\ \A p \in Projects : past'.key[p] # req'[q].key
             /\ \A o \in Requests \ {q} : req'[o].key # req'[q].key
    BY DEF NewKeys
  <2>1. q # r /\ req'[q] = req[q]
    BY <1>5
  <2>2. req[q].key \in Keys /\ None \notin Keys
    BY <2>1, ProjectsAssumption, OwnIs DEF Own, Fits
  <2>3. /\ \A p \in Projects : past.key[p] # req[q].key
        /\ \A o \in Requests \ {q} : req[o].key # req[q].key
    BY <2>1 DEF IInv, NewKeys
  <2> QED BY <1>4, <1>5, <2>1, <2>2, <2>3
<1>10. OneRow'
  BY <1>2, <1>4 DEF IInv, OneRow, Live
<1>11. Clean'
  <2>1. project[t].state = "deleted" => past.across
    BY <1>1, OwnIs DEF Latecomer, t
  <2>2. past'.across \/ project'[t].state # "deleted"
    BY <1>2, <1>3, <1>4, <2>1
  <2> QED BY <1>5, <2>2 DEF Clean
<1> QED BY <1>6, <1>8, <1>9, <1>10, <1>11 DEF IInv

LEMMA SetAccessKeeps ==
  ASSUME Typed, IInv, NEW r \in Requests, SetAccess(r)
  PROVE  Typed' /\ IInv'
<1> DEFINE t == Mine(r)
           v == req[r].target
           late == past.across \/ Deleting(t) \/ (~Live(t) /\ IsSuperAdmin(req[r].user))
<1>1. /\ req[r].pc = "target" /\ req[r].op \in {"grant", "revoke"} /\ t \in Projects
      /\ v \in Users /\ req[r].level \in Levels \cup {None}
  BY OwnIs DEF SetAccess, At, Fits, Kinds, RequestType
<1>2. /\ UNCHANGED <<project, secret, star, lock>> /\ Ends(r)
      /\ member' = member \/ member' = [member EXCEPT ![t][v] = req[r].level]
      /\ past' = [past EXCEPT !.across = late]
  BY DEF SetAccess
<1>3. /\ late \in BOOLEAN /\ (past.across => late) /\ (Deleting(t) => late)
      /\ ~Live(t) /\ IsSuperAdmin(req[r].user) => late
  BY <1>1 DEF Typed
<1> HIDE DEF late, t, v
<1>4. /\ member' \in [Projects -> [Users -> Levels \cup {None}]]
      /\ \A p \in Projects : p # t => member'[p] = member[p]
      /\ past' \in [key: [Projects -> Keys \cup {None}], across: BOOLEAN]
      /\ past'.key = past.key /\ past'.across = late
  <2>1. /\ past' \in [key: [Projects -> Keys \cup {None}], across: BOOLEAN]
        /\ past'.key = past.key /\ past'.across = late
    <3>1. /\ past \in [key: [Projects -> Keys \cup {None}], across: BOOLEAN]
          /\ past' = [past EXCEPT !.across = late] /\ late \in BOOLEAN
      BY <1>2, <1>3 DEF Typed
    <3> QED BY <3>1
  <2> DEFINE m == [member[t] EXCEPT ![v] = req[r].level]
  <2>2. m \in [Users -> Levels \cup {None}]
    BY <1>1 DEF Typed
  <2>3. member' = member \/ member' = [member EXCEPT ![t] = m]
    BY <1>1, <1>2
  <2>a. member \in [Projects -> [Users -> Levels \cup {None}]]
    BY DEF Typed
  <2> HIDE DEF m
  <2>4. /\ member' \in [Projects -> [Users -> Levels \cup {None}]]
        /\ \A p \in Projects : p # t => member'[p] = member[p]
    BY <2>2, <2>3, <2>a
  <2> QED BY <2>1, <2>4
<1>5. /\ req' \in [Requests -> RequestType] /\ Own(r)'
      /\ req'[r].op = "create" /\ req'[r].key = None
      /\ \A q \in Requests : q # r => req'[q] = req[q] /\ Mine(q)' = Mine(q)
      /\ \A q \in Requests : q # r /\ (req[q].op # "create" => Mine(q) # t) => Own(q)'
      /\ \A p \in Projects : p # t =>
           past'.across \/ (project'[p].state = "deleted" => MembersOf(p)' = {} /\ star'[p] = {})
  BY <1>1, <1>2, <1>3, <1>4, Elsewhere, SameLocks
<1>6. Typed'
  BY <1>2, <1>4, <1>5 DEF Typed
<1>7. ASSUME NEW q \in Requests, q # r, req[q].op # "create", Mine(q) = t PROVE Own(q)'
  <2>1. Own(q) /\ req'[q] = req[q] /\ Mine(q)' = Mine(q)
    BY <1>5, <1>7, OwnIs
  <2>2. Fits(q)' /\ Holds(q)' /\ StaysDead(q)'
    BY <1>2, <1>4, <2>1 DEF Own, Fits, Free, Holds, InTransaction, Live, StaysDead
  <2>3. Latecomer(q)'
    BY <1>2, <1>3, <1>4, <2>1 DEF Own, Latecomer
  <2>4. req[q].pc \in {"members", "remove"} => past'.across
    BY <1>3, <1>4, <1>7 DEF Deleting
  <2>5. KeysOf(Mine(q))' = KeysOf(Mine(q))
    <3>1. secret' = secret
      BY <1>2
    <3> QED BY <2>1, <3>1, Zenon DEF KeysOf
  <2>6. SawAll(q)'
    BY <2>1, <2>4, <2>5 DEF Own, SawAll
  <2> QED BY <2>2, <2>3, <2>6 DEF Own
<1>8. \A q \in Requests : Own(q)'
  BY <1>5, <1>7
<1>9. NewKeys'
  <2> SUFFICES ASSUME NEW q \in Requests, req'[q].op = "rotate"
      PROVE  /\ \A p \in Projects : past'.key[p] # req'[q].key
             /\ \A o \in Requests \ {q} : req'[o].key # req'[q].key
    BY DEF NewKeys
  <2>1. q # r /\ req'[q] = req[q]
    BY <1>5
  <2>2. req[q].key \in Keys /\ None \notin Keys
    BY <2>1, ProjectsAssumption, OwnIs DEF Own, Fits
  <2>3. /\ \A p \in Projects : past.key[p] # req[q].key
        /\ \A o \in Requests \ {q} : req[o].key # req[q].key
    BY <2>1 DEF IInv, NewKeys
  <2> QED BY <1>4, <1>5, <2>1, <2>2, <2>3
<1>10. OneRow'
  BY <1>2, <1>4 DEF IInv, OneRow, Live
<1>11. Clean'
  <2>1. project[t].state = "deleted" /\ ~past.across => IsSuperAdmin(req[r].user)
    BY <1>1, OwnIs DEF Latecomer, t
  <2>2. past'.across \/ project'[t].state # "deleted"
    BY <1>2, <1>3, <1>4, <2>1 DEF Live
  <2> QED BY <1>5, <2>2 DEF Clean
<1> QED BY <1>6, <1>8, <1>9, <1>10, <1>11 DEF IInv

----------------------------------------------------------------------------
\* The commit of a rotation: the transaction saw every row of the project.
LEMMA RotateKeeps ==
  ASSUME Typed, IInv, NEW r \in Requests, ReplaceSecret(r)
  PROVE  Typed' /\ IInv'
<1> DEFINE t == Mine(r)
           k == req[r].key
           row == [id |-> NextId(Kept(r)), key |-> k]
<1>1. /\ req[r].pc = "insert" /\ req[r].op = "rotate" /\ t \in Projects /\ k \in Keys
      /\ InTransaction(r) /\ Live(t) /\ req[r].doomed.keys = KeysOf(t)
  BY OwnIs DEF ReplaceSecret, At, Fits, Holds, InTransaction, SawAll
<1>2. Kept(r) = {}
  BY <1>1 DEF Kept, KeysOf
<1>3. NextId(Kept(r)) \in Nat
  <2>1. {x.id : x \in Kept(r)} \cup {0} = {0}
    BY <1>2
  <2>2. Max({0}) = 0
    BY DEF Max
  <2> QED BY <2>1, <2>2 DEF NextId
<1>4. /\ UNCHANGED <<project, member, star>> /\ Ends(r) /\ Release(r)
      /\ secret' = [secret EXCEPT ![t] = Kept(r) \cup {row}]
      /\ past' = [past EXCEPT !.key[t] = k]
  BY DEF ReplaceSecret
<1>5. row \in Row /\ row.key = k
  BY <1>1, <1>3 DEF Row
<1>6. secret' = [secret EXCEPT ![t] = {row}]
  BY <1>2, <1>4
<1>7. \A p \in Projects : past.key[p] # k
  BY <1>1 DEF IInv, NewKeys
<1>8. \A q \in Requests : q # r /\ Mine(q) = t => ~InTransaction(q)
  BY <1>1, Alone
<1> HIDE DEF row, t, k
<1>9. /\ secret' \in [Projects -> SUBSET Row] /\ secret'[t] = {row}
      /\ \A p \in Projects : p # t => secret'[p] = secret[p]
  BY <1>1, <1>5, <1>6 DEF Typed
<1>10. /\ past' \in [key: [Projects -> Keys \cup {None}], across: BOOLEAN]
       /\ past'.key[t] = k /\ past'.across = past.across
       /\ \A p \in Projects : p # t => past'.key[p] = past.key[p]
  BY <1>1, <1>4 DEF Typed
<1>11. /\ lock' \in [Projects -> Requests \cup {None}]
       /\ \A p \in Projects, q \in Requests : q # r /\ lock[p] = q => lock'[p] = q
  BY <1>4, ReleaseIs
<1>12. /\ req' \in [Requests -> RequestType] /\ Own(r)'
       /\ req'[r].op = "create" /\ req'[r].key = None
       /\ \A q \in Requests : q # r => req'[q] = req[q] /\ Mine(q)' = Mine(q)
       /\ \A q \in Requests : q # r /\ (req[q].op # "create" => Mine(q) # t) => Own(q)'
       /\ \A p \in Projects : p # t =>
            IF Live(p)' THEN \E x \in secret'[p] : secret'[p] = {x} /\ x.key = past'.key[p]
                        ELSE secret'[p] = {}
  <2>1. \A p \in Projects : p # t =>
          /\ project'[p] = project[p] /\ secret'[p] = secret[p] /\ member'[p] = member[p]
          /\ star'[p] = star[p] /\ past'.key[p] = past.key[p]
    BY <1>4, <1>9, <1>10
  <2> HIDE DEF Own, IInv, Typed
  <2> QED BY <1>1, <1>4, <1>10, <1>11, <2>1, Elsewhere
<1>13. Typed'
  BY <1>4, <1>9, <1>10, <1>11, <1>12 DEF Typed
<1>14. ASSUME NEW q \in Requests, q # r, req[q].op # "create", Mine(q) = t PROVE Own(q)'
  <2>1. Own(q) /\ req'[q] = req[q] /\ Mine(q)' = Mine(q) /\ req[q].op \in Kinds
    BY <1>12, <1>14, OwnIs
  <2>2. Fits(q)' /\ Latecomer(q)'
    BY <1>4, <1>10, <2>1 DEF Own, Fits, Free, Latecomer
  <2>3. ~InTransaction(q) /\ ~InTransaction(q)'
    BY <1>8, <1>14, <2>1 DEF InTransaction
  <2>4. Holds(q)' /\ SawAll(q)'
    BY <2>1, <2>3 DEF Holds, InTransaction, SawAll
  <2>5. req[q].key # k
    BY <1>1, <1>14 DEF IInv, NewKeys, k
  <2>6. StaysDead(q)'
    BY <1>10, <1>14, <2>1, <2>5 DEF Own, StaysDead
  <2> QED BY <2>2, <2>4, <2>6 DEF Own
<1>15. \A q \in Requests : Own(q)'
  BY <1>12, <1>14
<1>16. NewKeys'
  <2> SUFFICES ASSUME NEW q \in Requests, req'[q].op = "rotate"
               PROVE  /\ \A p \in Projects : past'.key[p] # req'[q].key
                      /\ \A x \in Requests \ {q} : req'[x].key # req'[q].key
    BY DEF NewKeys
  <2>1. q # r /\ req'[q] = req[q] /\ req[q].op = "rotate"
    BY <1>12
  <2>2. /\ \A p \in Projects : past.key[p] # req[q].key
        /\ \A x \in Requests \ {q} : req[x].key # req[q].key
        /\ req[q].key \in Keys
    BY <2>1, OwnIs DEF IInv, NewKeys, Fits
  <2>3. req[q].key # k /\ req[q].key # None
    BY <2>1, <2>2, ProjectsAssumption DEF k
  <2> QED BY <1>10, <1>12, <2>1, <2>2, <2>3
<1>17. OneRow'
  BY <1>1, <1>4, <1>5, <1>9, <1>10, <1>12 DEF OneRow, Live
<1>18. Clean'
  BY <1>4, <1>10 DEF IInv, Clean, MembersOf
<1> QED BY <1>13, <1>15, <1>16, <1>17, <1>18 DEF IInv

----------------------------------------------------------------------------
\* The commit of a creation, on an id that no request knows.
LEMMA CreateKeeps ==
  ASSUME Typed, IInv, NEW r \in Requests, CreateProject(r)
  PROVE  Typed' /\ IInv'
<1> DEFINE t == NewId
           k == FreshKey
           n == req[r].name
           row == [id |-> 1, key |-> k]
<1>1. /\ req[r].pc = "insert" /\ req[r].op = "create" /\ req[r].key = None
      /\ n \in Names \cup {None} /\ req[r].user \in Users \cup {None}
  BY OwnIs DEF CreateProject, At, Fits, RequestType
<1>2. t \in Projects /\ Free(t)
  BY DEF CreateProject, NewId
<1>3. /\ k \in Keys /\ k # None
      /\ \A p \in Projects : past.key[p] # k
      /\ \A q \in Requests : req[q].key # k
  BY <1>1, FreshKeyIs, ProjectsAssumption
<1>4. \E ticked \in SUBSET Users, l \in Levels :
        member' = [member EXCEPT ![t] = [v \in Users |->
          IF v = req[r].user THEN "maintainer" ELSE IF v \in ticked THEN l ELSE None]]
  BY DEF CreateProject
<1>5. \E m \in [Users -> Levels \cup {None}] : member' = [member EXCEPT ![t] = m]
  <2>1. PICK ticked \in SUBSET Users, l \in Levels :
        member' = [member EXCEPT ![t] = [v \in Users |->
          IF v = req[r].user THEN "maintainer" ELSE IF v \in ticked THEN l ELSE None]]
    BY <1>4
  <2> DEFINE m == [v \in Users |-> 
               IF v = req[r].user THEN "maintainer" ELSE IF v \in ticked THEN l ELSE None]
  <2>2. m \in [Users -> Levels \cup {None}]
    BY DEF Levels
  <2> HIDE DEF m
  <2> QED BY <2>1, <2>2 DEF m
<1>6. /\ UNCHANGED <<star, lock>> /\ Ends(r)
      /\ project' = [project EXCEPT ![t] = [state |-> "live", name |-> n]]
      /\ secret' = [secret EXCEPT ![t] = {row}]
      /\ past' = [past EXCEPT !.key[t] = k]
  BY DEF CreateProject
<1>7. row \in Row /\ row.key = k
  BY <1>3 DEF Row
<1>8. [state |-> "live", name |-> n] \in [state: {"free", "live", "deleted"}, name: Names \cup {None}]
  BY <1>1
<1>9. \A q \in Requests : req[q].op # "create" => Mine(q) # t
  BY <1>2, OwnIs DEF Fits
<1> HIDE DEF row, t, k, n
<1>10. /\ project' \in [Projects -> [state: {"free", "live", "deleted"}, name: Names \cup {None}]]
       /\ project'[t].state = "live"
       /\ \A p \in Projects : p # t => project'[p] = project[p]
  BY <1>2, <1>6, <1>8 DEF Typed
<1>11. /\ secret' \in [Projects -> SUBSET Row] /\ secret'[t] = {row}
       /\ \A p \in Projects : p # t => secret'[p] = secret[p]
  BY <1>2, <1>6, <1>7 DEF Typed
<1>12. /\ member' \in [Projects -> [Users -> Levels \cup {None}]]
       /\ \A p \in Projects : p # t => member'[p] = member[p]
  BY <1>2, <1>5 DEF Typed
<1>13. /\ past' \in [key: [Projects -> Keys \cup {None}], across: BOOLEAN]
       /\ past'.key[t] = k /\ past'.across = past.across
       /\ \A p \in Projects : p # t => past'.key[p] = past.key[p]
  BY <1>2, <1>3, <1>6 DEF Typed
<1>14. /\ req' \in [Requests -> RequestType] /\ Own(r)'
       /\ req'[r].op = "create" /\ req'[r].key = None
       /\ \A q \in Requests : q # r => req'[q] = req[q]
       /\ \A q \in Requests : q # r => Own(q)'
       /\ \A p \in Projects : p # t =>
            /\ IF Live(p)' THEN \E x \in secret'[p] : secret'[p] = {x} /\ x.key = past'.key[p]
                           ELSE secret'[p] = {}
            /\ past'.across \/ (project'[p].state = "deleted" => MembersOf(p)' = {} /\ star'[p] = {})
  <2>1. \A p \in Projects : p # t =>
          /\ project'[p] = project[p] /\ secret'[p] = secret[p] /\ member'[p] = member[p]
          /\ star'[p] = star[p] /\ past'.key[p] = past.key[p]
    BY <1>6, <1>10, <1>11, <1>12, <1>13
  <2>2. Ends(r) /\ (past.across => past'.across)
    BY <1>6, <1>13
  <2>3. \A p \in Projects, q \in Requests : q # r /\ lock[p] = q => lock'[p] = q
    BY <1>6, SameLocks
  <2> HIDE DEF Own, IInv, Typed
  <2> QED BY <1>2, <1>9, <2>1, <2>2, <2>3, Elsewhere
<1>15. Typed'
  BY <1>6, <1>10, <1>11, <1>12, <1>13, <1>14, SameLocks DEF Typed
<1>16. NewKeys'
  <2> SUFFICES ASSUME NEW q \in Requests, req'[q].op = "rotate"
               PROVE  /\ \A p \in Projects : past'.key[p] # req'[q].key
                      /\ \A x \in Requests \ {q} : req'[x].key # req'[q].key
    BY DEF NewKeys
  <2>1. q # r /\ req'[q] = req[q] /\ req[q].op = "rotate"
    BY <1>14
  <2>2. /\ \A p \in Projects : past.key[p] # req[q].key
        /\ \A x \in Requests \ {q} : req[x].key # req[q].key
        /\ req[q].key \in Keys
    BY <2>1, OwnIs DEF IInv, NewKeys, Fits
  <2>3. req[q].key # k /\ req[q].key # None
    BY <1>3, <2>2, ProjectsAssumption
  <2> QED BY <1>13, <1>14, <2>1, <2>2, <2>3
<1>17. OneRow'
  BY <1>7, <1>10, <1>11, <1>13, <1>14 DEF OneRow, Live
<1>18. Clean'
  BY <1>10, <1>14 DEF Clean
<1> QED BY <1>14, <1>15, <1>16, <1>17, <1>18 DEF IInv

\* The commit of a deletion.
LEMMA RemoveKeeps ==
  ASSUME Typed, IInv, NEW r \in Requests, RemoveProject(r)
  PROVE  Typed' /\ IInv'
<1> DEFINE t == Mine(r)
           late == past.across \/ Underway(t)
           d == req[r].doomed
           s == star[t] \ d.stars
           m == [u \in Users |-> IF u \in d.members THEN None ELSE member[t][u]]
           n == [project[t] EXCEPT !.state = "deleted"]
<1>1. /\ req[r].pc = "remove" /\ req[r].op = "delete" /\ t \in Projects
      /\ InTransaction(r) /\ Live(t) /\ d.keys = KeysOf(t)
      /\ ~past.across => star[t] \subseteq d.stars /\ MembersOf(t) \subseteq d.members
  BY OwnIs DEF RemoveProject, At, Fits, Kinds, Holds, InTransaction, SawAll
<1>2. Kept(r) = {}
  BY <1>1 DEF Kept, KeysOf
<1>3. /\ Ends(r) /\ Release(r)
      /\ project' = [project EXCEPT ![t] = n]
      /\ secret' = [secret EXCEPT ![t] = {}]
      /\ star' = [star EXCEPT ![t] = s]
      /\ member' = [member EXCEPT ![t] = m]
      /\ past' = [past EXCEPT !.across = late]
  <2>1. project' = [project EXCEPT ![t].state = "deleted"]
    BY DEF RemoveProject
  <2>2. project' = [project EXCEPT ![t] = n]
    BY <1>1, <2>1 DEF Typed
  <2> QED BY <1>2, <2>2 DEF RemoveProject
<1>4. /\ n \in [state: {"free", "live", "deleted"}, name: Names \cup {None}] /\ n.state = "deleted"
      /\ s \in SUBSET Users
      /\ m \in [Users -> Levels \cup {None}]
      /\ ~past.across => s = {} /\ \A u \in Users : m[u] = None
      /\ late \in BOOLEAN /\ (past.across => late) /\ (Underway(t) => late)
  <2>1. n \in [state: {"free", "live", "deleted"}, name: Names \cup {None}] /\ n.state = "deleted"
    BY <1>1 DEF Typed
  <2>2. s \in SUBSET Users
    BY <1>1 DEF Typed
  <2>4. m \in [Users -> Levels \cup {None}]
    <3> HIDE DEF t, d
    <3>1. \A u \in Users : member[t][u] \in Levels \cup {None}
      BY <1>1 DEF Typed
    <3> QED BY <3>1
  <2>3. ~past.across => s = {} /\ \A u \in Users : m[u] = None
    BY <1>1 DEF MembersOf
  <2> QED BY <2>1, <2>2, <2>3, <2>4 DEF Typed
<1>5. \A q \in Requests : q # r /\ Mine(q) = t => ~InTransaction(q)
  BY <1>1, Alone
<1>6. Underway(t) <=> \E q \in Requests : Mine(q) = t /\ req[q].pc \in {"star", "toggle", "manage", "target"}
  BY DEF Underway
<1> HIDE DEF t, late, s, m, n, d
<1>7. /\ project' \in [Projects -> [state: {"free", "live", "deleted"}, name: Names \cup {None}]]
      /\ project'[t].state = "deleted"
      /\ \A p \in Projects : p # t => project'[p] = project[p]
  BY <1>1, <1>3, <1>4 DEF Typed
<1>8. /\ secret' \in [Projects -> SUBSET Row] /\ secret'[t] = {}
      /\ \A p \in Projects : p # t => secret'[p] = secret[p]
  BY <1>1, <1>3 DEF Typed
<1>9. /\ member' \in [Projects -> [Users -> Levels \cup {None}]] /\ member'[t] = m
      /\ \A p \in Projects : p # t => member'[p] = member[p]
  BY <1>1, <1>3, <1>4 DEF Typed
<1>10. /\ star' \in [Projects -> SUBSET Users] /\ star'[t] = s
       /\ \A p \in Projects : p # t => star'[p] = star[p]
  BY <1>1, <1>3, <1>4 DEF Typed
<1>11. /\ past' \in [key: [Projects -> Keys \cup {None}], across: BOOLEAN]
       /\ past'.key = past.key /\ past'.across = late
  BY <1>3, <1>4 DEF Typed
<1>12. /\ lock' \in [Projects -> Requests \cup {None}]
       /\ \A p \in Projects, q \in Requests : q # r /\ lock[p] = q => lock'[p] = q
  BY <1>3, ReleaseIs
<1>13. /\ req' \in [Requests -> RequestType] /\ Own(r)'
       /\ req'[r].op = "create" /\ req'[r].key = None
       /\ \A q \in Requests : q # r => req'[q] = req[q] /\ Mine(q)' = Mine(q)
       /\ \A q \in Requests : q # r /\ (req[q].op # "create" => Mine(q) # t) => Own(q)'
       /\ \A p \in Projects : p # t =>
            /\ IF Live(p)' THEN \E x \in secret'[p] : secret'[p] = {x} /\ x.key = past'.key[p]
                           ELSE secret'[p] = {}
            /\ past'.across \/ (project'[p].state = "deleted" => MembersOf(p)' = {} /\ star'[p] = {})
  <2>1. \A p \in Projects : p # t =>
          /\ project'[p] = project[p] /\ secret'[p] = secret[p] /\ member'[p] = member[p]
          /\ star'[p] = star[p] /\ past'.key[p] = past.key[p]
    BY <1>7, <1>8, <1>9, <1>10, <1>11
  <2>2. Ends(r) /\ (past.across => past'.across)
    BY <1>3, <1>4, <1>11
  <2> HIDE DEF Own, IInv, Typed
  <2> QED BY <1>1, <1>12, <2>1, <2>2, Elsewhere
<1>14. Typed'
  BY <1>7, <1>8, <1>9, <1>10, <1>11, <1>12, <1>13 DEF Typed
<1>15. ASSUME NEW q \in Requests, q # r, req[q].op # "create", Mine(q) = t PROVE Own(q)'
  <2>1. Own(q) /\ req'[q] = req[q] /\ Mine(q)' = Mine(q) /\ req[q].op \in Kinds
    BY <1>13, <1>15, OwnIs
  <2>2. Fits(q)'
    BY <1>1, <1>7, <1>15, <2>1 DEF Own, Fits, Free
  <2>3. ~InTransaction(q) /\ ~InTransaction(q)'
    BY <1>5, <1>15, <2>1 DEF InTransaction
  <2>4. Holds(q)' /\ SawAll(q)'
    BY <2>1, <2>3 DEF Holds, InTransaction, SawAll
  <2>5. Latecomer(q)'
    BY <1>4, <1>6, <1>11, <1>15, <2>1 DEF Latecomer
  <2>6. StaysDead(q)'
    BY <1>7, <1>15, <2>1 DEF Own, StaysDead, Live
  <2> QED BY <2>2, <2>4, <2>5, <2>6 DEF Own
<1>16. \A q \in Requests : Own(q)'
  BY <1>13, <1>15
<1>17. NewKeys'
  BY <1>11, <1>13, ProjectsAssumption DEF IInv, NewKeys, Own, Fits
<1>18. OneRow'
  BY <1>7, <1>8, <1>13 DEF OneRow, Live
<1>19. Clean'
  <2>1. past'.across \/ \A p \in Projects : p = t => MembersOf(p)' = {} /\ star'[p] = {}
    BY <1>4, <1>9, <1>10, <1>11 DEF MembersOf
  <2> QED BY <1>13, <2>1 DEF Clean
<1> QED BY <1>14, <1>16, <1>17, <1>18, <1>19 DEF IInv

----------------------------------------------------------------------------
(* Every step, and what the invariant says.                                *)

LEMMA StepKeeps ==
  ASSUME Typed, IInv, [Next]_vars
  PROVE  Typed' /\ IInv'
<1>1. CASE UNCHANGED vars
  BY <1>1 DEF vars, Typed, Row, IInv, Own, Fits, Free, Mine, Holds, InTransaction, Live, SawAll,
              KeysOf, MembersOf, Latecomer, StaysDead, NewKeys, OneRow, Clean
<1>2. ASSUME NEW r \in Requests, Ask(r) PROVE Typed' /\ IInv'
  BY <1>2, AskKeeps
<1>3. ASSUME NEW r \in Requests, Serve(r) PROVE Typed' /\ IInv'
  <2> USE <1>3
  <2>1. CASE ValidateProjectName(r) BY <2>1, NameKeeps
  <2>2. CASE CreateProject(r) BY <2>2, CreateKeeps
  <2>3. CASE LockProject(r) BY <2>3, LockKeeps
  <2>4. CASE UpdateProject(r) BY <2>4, UpdateKeeps
  <2>5. CASE ReplaceSecret(r) BY <2>5, RotateKeeps
  <2>6. CASE \/ DropSecrets(r) \/ DeleteSecretsByProject(r)
             \/ DeleteFavoritesByProject(r) \/ RemoveAllForProject(r)
    BY <2>6, DoomKeeps
  <2>7. CASE RemoveProject(r) BY <2>7, RemoveKeeps
  <2>8. CASE GetProject(r) \/ IsFavorite(r) \/ RequireManage(r) \/ ValidateProjectCredentials(r)
    BY <2>8, ReadKeeps
  <2>9. CASE SetFavorite(r) BY <2>9, SetFavoriteKeeps
  <2>10. CASE SetAccess(r) BY <2>10, SetAccessKeeps
  <2> QED BY <2>1, <2>2, <2>3, <2>4, <2>5, <2>6, <2>7, <2>8, <2>9, <2>10 DEF Serve
<1>4. ASSUME NEW r \in Requests, Fails(r) PROVE Typed' /\ IInv'
  BY <1>4, Answered DEF Fails
<1> HIDE DEF Typed, IInv
<1> QED BY <1>1, <1>2, <1>3, <1>4 DEF Next

LEMMA Inductive == Spec => [](Typed /\ IInv)
<1>1. Init => Typed /\ IInv
  BY InitKeeps
<1>2. Typed /\ IInv /\ [Next]_vars => (Typed /\ IInv)'
  BY StepKeeps
<1> QED BY <1>1, <1>2, PTL DEF Spec

\* The variables have the types that the tables and a request give them.
THEOREM ProjectTypes == Spec => []TypeOK
<1>1. Typed => TypeOK
  BY TypedIs
<1> QED BY <1>1, Inductive, PTL

\* However creations, rotations, deletions, devices and failures of any of their
\* statements cross: a living project has exactly one key, the last that was handed
\* out, a deleted one has none, and no device gets in with a key that was dead when
\* it came.
THEOREM KeySafe == Spec => []OneKeyOpens
<1>1. ASSUME Typed, IInv PROVE OneKeyOpens
  <2>1. KeyInForce
    <3> SUFFICES ASSUME NEW p \in Projects
                 PROVE  IF Live(p) THEN Cardinality(secret[p]) = 1 /\ KeysOf(p) = {past.key[p]}
                                   ELSE secret[p] = {}
      BY DEF KeyInForce
    <3>1. CASE Live(p)
      <4>1. PICK row \in secret[p] : secret[p] = {row}
        BY <1>1, <3>1 DEF IInv, OneRow
      <4>2. Cardinality(secret[p]) = 1
        BY <4>1, FS_Singleton
      <4> QED BY <1>1, <3>1, <4>2, KeysAre DEF IInv
    <3> QED BY <1>1, <3>1 DEF IInv, OneRow
  <2>2. DeadKeysRefused
    BY <1>1, OwnIs DEF DeadKeysRefused, At, StaysDead
  <2> QED BY <1>1, <2>1, <2>2, TypedIs DEF OneKeyOpens
<1>2. Typed /\ IInv => OneKeyOpens
  BY <1>1
<1> QED BY <1>2, Inductive, PTL

\* Nobody is on a deleted project and nobody has it starred, unless a row was
\* written across its deletion or by a super admin after it.
THEOREM DeletedSafe == Spec => []DeletedGrantsNothing
<1>1. Typed /\ IInv => DeletedGrantsNothing
  BY DEF IInv, Clean, DeletedGrantsNothing
<1> QED BY <1>1, Inductive, PTL
=============================================================================
