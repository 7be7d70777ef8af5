--------------------------- MODULE ServicesProofs ---------------------------
(***************************************************************************)
(* Proofs about the services around the pipeline, for any users, requests, *)
(* limits and faults.  Each keeps an invariant of its own: none reads the  *)
(* tables of another.                                                      *)
(***************************************************************************)
EXTENDS Services, Sequences, FiniteSets, TLAPS, FiniteSetTheorems

-----------------------------------------------------------------------------
(* Workspaces.                                                             *)

\* The number of active workspaces.
Actives == Cardinality(Spaces!Active)

SpaceTypes ==
    /\ space \in [Space -> [state : {"none", "active", "archived", "purged"},
                            at : Nat, acked : BOOLEAN]]
    /\ create \in [Space -> {"new", "insert", "refused", "done"}]
    /\ restores \in Nat /\ day \in Nat

\* Whoever counted the workspaces holds the lock of the user row ...
CountedLocked == \A w \in Space : create[w] \in {"insert", "refused"} => user = w

\* ... and there is still room for what it inserts.
RoomLeft == \A w \in Space : create[w] = "insert" => Actives < Quota + restores

QuotaInv == SpaceTypes /\ CountedLocked /\ RoomLeft /\ Actives <= Quota + restores

\* Cardinality and IsFiniteSet, as Workspaces instantiates them.
LEMMA SpacesSets ==
    ASSUME NEW S
    PROVE  /\ Spaces!Cardinality(S) = Cardinality(S)
           /\ Spaces!IsFiniteSet(S) <=> IsFiniteSet(S)
<1>1. Spaces!Cardinality(S) = Cardinality(S)
  BY DEF Spaces!Cardinality, Cardinality
<1>2. Spaces!IsFiniteSet(S) <=> IsFiniteSet(S)
  BY DEF Spaces!IsFiniteSet, IsFiniteSet
<1> QED
  BY <1>1, <1>2

LEMMA ActivesFinite ==
    ASSUME Spaces!WorkspacesAssumption
    PROVE  /\ IsFiniteSet(Spaces!Active) /\ Actives \in Nat
           /\ IsFiniteSet(Spaces!Active') /\ Actives' \in Nat
<1>1. IsFiniteSet(Space)
  BY SpacesSets DEF Spaces!WorkspacesAssumption
<1>2. Spaces!Active \in SUBSET Space /\ Spaces!Active' \in SUBSET Space
  BY DEF Spaces!Active
<1> QED
  BY <1>1, <1>2, FS_Subset, FS_CardinalityType DEF Actives

\* No workspace becomes active, or one does.
LEMMA ActivesMove ==
    ASSUME Spaces!WorkspacesAssumption
    PROVE  /\ Spaces!Active' \subseteq Spaces!Active => Actives' <= Actives
           /\ \A w \in Space :
                 Spaces!Active' \subseteq Spaces!Active \cup {w} => Actives' <= Actives + 1
<1>1. /\ IsFiniteSet(Spaces!Active) /\ Actives \in Nat /\ Actives' \in Nat
      /\ Actives = Cardinality(Spaces!Active) /\ Actives' = Cardinality(Spaces!Active')
  BY ActivesFinite DEF Actives
<1>2. Spaces!Active' \subseteq Spaces!Active => Actives' <= Actives
  BY <1>1, FS_Subset
<1>3. ASSUME NEW w \in Space, Spaces!Active' \subseteq Spaces!Active \cup {w}
      PROVE  Actives' <= Actives + 1
  <2> DEFINE wider == Spaces!Active \cup {w}
  <2>1. /\ IsFiniteSet(wider)
        /\ Cardinality(wider) = IF w \in Spaces!Active THEN Actives ELSE Actives + 1
    BY <1>1, FS_AddElement
  <2>2. Cardinality(Spaces!Active') <= Cardinality(wider)
    BY <1>3, <2>1, FS_Subset
  <2> QED
    BY <1>1, <2>1, <2>2
<1> QED
  BY <1>2, <1>3

LEMMA QuotaStarts ==
    ASSUME Spaces!WorkspacesAssumption
    PROVE  Spaces!Init => QuotaInv
<1> SUFFICES ASSUME Spaces!Init PROVE QuotaInv
  OBVIOUS
<1>1. Spaces!Active = {}
  BY DEF Spaces!Init, Spaces!Active, Spaces!NewRow
<1>2. Actives = 0
  BY <1>1, FS_EmptySet DEF Actives
<1>3. SpaceTypes /\ CountedLocked /\ RoomLeft
  BY DEF Spaces!Init, Spaces!NewRow, SpaceTypes, CountedLocked, RoomLeft
<1> QED
  BY <1>2, <1>3 DEF QuotaInv, Spaces!Init, Spaces!WorkspacesAssumption

\* The types, and what a step of the user row's lock leaves to the others.
LEMMA SpaceTypesKept ==
    ASSUME SpaceTypes, [Spaces!Next]_(Spaces!vars)
    PROVE  SpaceTypes'
<1>1. CASE \E w \in Space : Spaces!CountActive(w) \/ Spaces!Insert(w) \/ Spaces!CreateFails(w)
  <2>1. UNCHANGED <<restores, day>> /\ create' \in [Space -> {"new", "insert", "refused", "done"}]
    BY <1>1 DEF SpaceTypes, Spaces!CountActive, Spaces!Insert, Spaces!CreateFails
  <2>2. space' \in [Space -> [state : {"none", "active", "archived", "purged"},
                              at : Nat, acked : BOOLEAN]]
    <3>1. PICK w \in Space : Spaces!CountActive(w) \/ Spaces!Insert(w) \/ Spaces!CreateFails(w)
      BY <1>1
    <3>2. space' \in {space, [space EXCEPT ![w] = Spaces!NewRow("active")]}
      BY <3>1 DEF Spaces!CountActive, Spaces!Insert, Spaces!CreateFails
    <3>3. Spaces!NewRow("active") \in [state : {"none", "active", "archived", "purged"},
                                       at : Nat, acked : BOOLEAN]
      BY DEF Spaces!NewRow
    <3> QED
      BY <3>2, <3>3 DEF SpaceTypes
  <2> QED
    BY <2>1, <2>2 DEF SpaceTypes
<1>2. CASE \E w \in Space : Spaces!Restore(w) \/ \E acked \in BOOLEAN : Spaces!Archive(w, acked)
  <2>1. restores' \in Nat /\ UNCHANGED <<create, day>>
    BY <1>2 DEF SpaceTypes, Spaces!Restore, Spaces!Archive
  <2>2. space' \in [Space -> [state : {"none", "active", "archived", "purged"},
                              at : Nat, acked : BOOLEAN]]
    <3> DEFINE Row == [state : {"none", "active", "archived", "purged"}, at : Nat, acked : BOOLEAN]
    <3>1. PICK w \in Space : Spaces!Restore(w) \/ \E acked \in BOOLEAN : Spaces!Archive(w, acked)
      BY <1>2
    <3>2. Spaces!NewRow("active") \in Row
      BY DEF Spaces!NewRow
    <3>3. \A acked \in BOOLEAN : [state |-> "archived", at |-> day, acked |-> acked] \in Row
      BY DEF SpaceTypes
    <3>4. \E r \in Row : space' = [space EXCEPT ![w] = r]
      BY <3>1, <3>2, <3>3 DEF Spaces!Restore, Spaces!Archive
    <3> HIDE DEF Row
    <3>5. space \in [Space -> Row]
      BY DEF SpaceTypes, Row
    <3>6. space' \in [Space -> Row]
      BY <3>4, <3>5
    <3> QED
      BY <3>6 DEF Row
  <2> QED
    BY <2>1, <2>2 DEF SpaceTypes
<1>3. CASE Spaces!DeleteBatch
  <2>1. UNCHANGED <<create, day, restores>>
    BY <1>3 DEF Spaces!DeleteBatch
  <2>2. space' \in [Space -> [state : {"none", "active", "archived", "purged"},
                              at : Nat, acked : BOOLEAN]]
    BY <1>3 DEF SpaceTypes, Spaces!DeleteBatch, Spaces!NewRow
  <2> QED
    BY <2>1, <2>2 DEF SpaceTypes
<1>4. CASE \/ Spaces!StartPurge \/ Spaces!SelectBatch \/ Spaces!PurgeDies \/ Spaces!Day
           \/ UNCHANGED Spaces!vars
  <2>1. UNCHANGED <<space, create, restores>> /\ day' \in {day, day + 1}
    BY <1>4 DEF Spaces!StartPurge, Spaces!SelectBatch, Spaces!PurgeDies, Spaces!Day, Spaces!vars
  <2> QED
    BY <2>1 DEF SpaceTypes
<1> QED
  BY <1>1, <1>2, <1>3, <1>4 DEF Spaces!Next

LEMMA QuotaKept ==
    ASSUME Spaces!WorkspacesAssumption, QuotaInv, [Spaces!Next]_(Spaces!vars)
    PROVE  QuotaInv'
<1>1. /\ SpaceTypes /\ CountedLocked /\ RoomLeft /\ Actives <= Quota + restores
      /\ Quota \in Nat /\ "free" \notin Space /\ restores \in Nat /\ restores' \in Nat
      /\ Actives \in Nat /\ Actives' \in Nat
  BY SpaceTypesKept, ActivesFinite DEF QuotaInv, SpaceTypes, Spaces!WorkspacesAssumption
<1>2. SpaceTypes'
  BY <1>1, SpaceTypesKept
<1>3. ASSUME NEW w \in Space, Spaces!CountActive(w)
      PROVE  QuotaInv'
  <2> DEFINE count == Spaces!Cardinality(Spaces!Active)
  <2>1. UNCHANGED <<space, restores>> /\ user = "free" /\ user' = w /\ create[w] = "new"
        /\ create' = [create EXCEPT ![w] = IF count < Quota THEN "insert" ELSE "refused"]
    BY <1>3 DEF Spaces!CountActive, Spaces!LockUser
  <2>0. count = Actives
    BY SpacesSets DEF Actives
  <2> HIDE DEF count
  <2>2. Actives' = Actives
    BY <2>1 DEF Actives, Spaces!Active
  <2>3. \A v \in Space : create[v] \notin {"insert", "refused"}
    BY <1>1, <2>1 DEF CountedLocked
  <2>4. \A v \in Space : v # w => create'[v] = create[v]
    BY <1>1, <2>1 DEF SpaceTypes
  <2>5. create'[w] = "insert" => Actives < Quota
    BY <1>1, <2>0, <2>1 DEF SpaceTypes
  <2>6. CountedLocked'
    BY <2>1, <2>3, <2>4 DEF CountedLocked
  <2>7. RoomLeft'
    BY <1>1, <2>1, <2>2, <2>3, <2>4, <2>5 DEF RoomLeft
  <2> QED
    BY <1>1, <1>2, <2>1, <2>2, <2>6, <2>7 DEF QuotaInv
<1>4. ASSUME NEW w \in Space, Spaces!Insert(w) \/ Spaces!CreateFails(w)
      PROVE  QuotaInv'
  <2>1. /\ create[w] \in {"insert", "refused"} /\ UNCHANGED restores
        /\ create'[w] \notin {"insert", "refused"}
        /\ \A v \in Space : v # w => create'[v] = create[v]
    BY <1>1, <1>4 DEF SpaceTypes, Spaces!Insert, Spaces!CreateFails
  <2>2. \A v \in Space : create'[v] \notin {"insert", "refused"}
    BY <1>1, <2>1 DEF CountedLocked
  <2>3. Actives' <= Quota + restores
    <3>1. CASE Spaces!Insert(w)
      <4>1. Actives < Quota + restores
        BY <1>1, <3>1 DEF RoomLeft, Spaces!Insert
      <4>2. Spaces!Active' \subseteq Spaces!Active \cup {w}
        BY <1>1, <3>1 DEF Spaces!Active, Spaces!Insert, SpaceTypes
      <4> QED
        BY <1>1, <4>1, <4>2, ActivesMove
    <3>2. CASE Spaces!CreateFails(w)
      <4>1. Actives' = Actives
        BY <3>2 DEF Spaces!CreateFails, Actives, Spaces!Active
      <4> QED
        BY <1>1, <4>1
    <3> QED
      BY <1>4, <3>1, <3>2
  <2> QED
    BY <1>2, <2>1, <2>2, <2>3 DEF QuotaInv, CountedLocked, RoomLeft
<1>5. ASSUME NEW w \in Space, Spaces!Restore(w)
      PROVE  QuotaInv'
  <2>1. UNCHANGED <<create, user>> /\ restores' = restores + 1
        /\ Spaces!Active' \subseteq Spaces!Active \cup {w}
    BY <1>1, <1>5 DEF Spaces!Restore, Spaces!Active, SpaceTypes
  <2>2. Actives' <= Actives + 1
    BY <2>1, ActivesMove
  <2>3. RoomLeft'
    BY <1>1, <2>1, <2>2 DEF RoomLeft
  <2> QED
    BY <1>1, <1>2, <2>1, <2>2, <2>3 DEF QuotaInv, CountedLocked
<1>6. ASSUME UNCHANGED <<create, user, restores>>, Spaces!Active' \subseteq Spaces!Active
      PROVE  QuotaInv'
  <2>1. Actives' <= Actives
    BY <1>6, ActivesMove
  <2>2. RoomLeft'
    BY <1>1, <1>6, <2>1 DEF RoomLeft
  <2> QED
    BY <1>1, <1>2, <1>6, <2>1, <2>2 DEF QuotaInv, CountedLocked
<1>7. ASSUME NEW w \in Space, NEW acked \in BOOLEAN, Spaces!Archive(w, acked)
      PROVE  QuotaInv'
  <2>1. Spaces!Active' \subseteq Spaces!Active
    BY <1>1, <1>7 DEF Spaces!Archive, Spaces!Active, SpaceTypes
  <2> QED
    BY <1>6, <1>7, <2>1 DEF Spaces!Archive
<1>8. CASE Spaces!DeleteBatch
  <2>1. Spaces!Active' \subseteq Spaces!Active
    BY <1>1, <1>8 DEF Spaces!DeleteBatch, Spaces!Active, Spaces!NewRow, SpaceTypes
  <2> QED
    BY <1>6, <1>8, <2>1 DEF Spaces!DeleteBatch
<1>9. CASE \/ Spaces!StartPurge \/ Spaces!SelectBatch \/ Spaces!PurgeDies \/ Spaces!Day
           \/ UNCHANGED Spaces!vars
  <2>1. UNCHANGED <<space, create, user, restores>>
    BY <1>9 DEF Spaces!StartPurge, Spaces!SelectBatch, Spaces!PurgeDies, Spaces!Day, Spaces!vars
  <2> QED
    BY <1>6, <2>1 DEF Spaces!Active
<1> QED
  BY <1>3, <1>4, <1>5, <1>7, <1>8, <1>9 DEF Spaces!Next

(***************************************************************************)
(* Requests that create workspaces side by side, with each other and with  *)
(* the trash and its purge, never pass the quota of their user: the count  *)
(* and the insert are under one lock of the user row (create).  Only       *)
(* restores, which do not ask for the quota, lead over it.                 *)
(***************************************************************************)
THEOREM QuotaHolds ==
    ASSUME Spaces!WorkspacesAssumption
    PROVE  Spaces!Spec => []WithinQuota
<1>1. Spaces!Init => QuotaInv
  BY QuotaStarts
<1>2. QuotaInv /\ [Spaces!Next]_(Spaces!vars) => QuotaInv'
  BY QuotaKept
<1>3. QuotaInv => WithinQuota
  BY SpacesSets DEF QuotaInv, WithinQuota, Spaces!WithinQuota, Actives
<1> QED
  BY <1>1, <1>2, <1>3, PTL DEF Spaces!Spec

-----------------------------------------------------------------------------
(* Storyboards.                                                            *)

Deck == [status : {"generating", "ready", "stale", "failed"}, paid : BOOLEAN, old : BOOLEAN,
         source : Nat, slug : Nat, shared : BOOLEAN]

Run == [pc : {"gone", "call", "finalise", "fail", "force"},
        at : {"primary", "escalated", "failover"}, repairs : Nat, doubled : BOOLEAN]

BoardTypes ==
    /\ deck \in Seq(Deck) /\ run \in Seq(Run) /\ Len(run) = Len(deck)
    /\ click \in [Click -> [pc : {"idle", "reserve", "lock", "done"}, source : Nat]]
    /\ source \in Nat /\ slugs \in Nat

\* A run at work has a row that is still generating; the sweep takes only rows
\* whose run is gone; a row is paid unless it failed.
Good(d, r) ==
    /\ d.paid <=> d.status # "failed"
    /\ r.pc \in {"call", "finalise", "fail"} => d.status = "generating"
    /\ d.old => r.pc = "gone"

OneGenerating ==
    \A v, w \in 1..Len(deck) :
        deck[v].status = "generating" /\ deck[w].status = "generating" => v = w

DeckInv == BoardTypes /\ OneGenerating /\ \A v \in 1..Len(deck) : Good(deck[v], run[v])

\* Rows move, but none begins to generate.
LEMMA DecksMove ==
    ASSUME DeckInv, deck' \in Seq(Deck), run' \in Seq(Run),
           Len(deck') = Len(deck), Len(run') = Len(run),
           click' \in [Click -> [pc : {"idle", "reserve", "lock", "done"}, source : Nat]],
           source' \in Nat, slugs' \in Nat,
           \A v \in 1..Len(deck) :
               /\ Good(deck'[v], run'[v])
               /\ deck'[v].status = "generating" => deck[v].status = "generating"
    PROVE  DeckInv'
<1>1. BoardTypes'
  BY DEF DeckInv, BoardTypes
<1>2. OneGenerating'
  BY DEF DeckInv, OneGenerating
<1> QED
  BY <1>1, <1>2 DEF DeckInv

\* One row and its run move.
LEMMA DeckMoves ==
    ASSUME DeckInv, NEW v \in 1..Len(deck), NEW d \in Deck, NEW r \in Run,
           deck' = [deck EXCEPT ![v] = d], run' = [run EXCEPT ![v] = r],
           UNCHANGED <<click, source>>, slugs' \in Nat,
           Good(d, r), d.status = "generating" => deck[v].status = "generating"
    PROVE  DeckInv'
<1>1. deck \in Seq(Deck) /\ run \in Seq(Run) /\ Len(run) = Len(deck)
      /\ click' \in [Click -> [pc : {"idle", "reserve", "lock", "done"}, source : Nat]]
      /\ source' \in Nat
  BY DEF DeckInv, BoardTypes
<1>2. deck' \in Seq(Deck) /\ Len(deck') = Len(deck) /\ deck'[v] = d
      /\ \A u \in 1..Len(deck) : u # v => deck'[u] = deck[u]
  BY <1>1
<1>3. run' \in Seq(Run) /\ Len(run') = Len(run) /\ run'[v] = r
      /\ \A u \in 1..Len(deck) : u # v => run'[u] = run[u]
  BY <1>1
<1>4. \A u \in 1..Len(deck) : u # v => Good(deck'[u], run'[u])
  BY <1>2, <1>3 DEF DeckInv
<1>5. \A u \in 1..Len(deck) :
          /\ Good(deck'[u], run'[u])
          /\ deck'[u].status = "generating" => deck[u].status = "generating"
  BY <1>2, <1>3, <1>4
<1> QED
  BY <1>1, <1>2, <1>3, <1>5, DecksMove

LEMMA DecksStart == Boards!Init => DeckInv
BY DEF Boards!Init, DeckInv, BoardTypes, OneGenerating

\* A request moves, or writes its row under the workspace lock.
LEMMA ClickKept ==
    ASSUME DeckInv, NEW c \in Click,
           \/ Boards!ReadSource(c) \/ Boards!ReadSection(c) \/ Boards!FindInFlight(c)
           \/ Boards!Reserve(c) \/ Boards!ReserveRefused(c)
    PROVE  DeckInv'
<1>1. /\ deck \in Seq(Deck) /\ run \in Seq(Run) /\ Len(run) = Len(deck)
      /\ click \in [Click -> [pc : {"idle", "reserve", "lock", "done"}, source : Nat]]
      /\ source \in Nat /\ slugs \in Nat /\ UNCHANGED <<source, slugs>>
  BY DEF DeckInv, BoardTypes, Boards!ReadSource, Boards!ReadSection, Boards!FindInFlight,
     Boards!Reserve, Boards!ReserveRefused
<1>2. click' \in [Click -> [pc : {"idle", "reserve", "lock", "done"}, source : Nat]]
  <2>1. CASE Boards!ReadSource(c) \/ Boards!ReadSection(c)
    <3> DEFINE new == [pc |-> "reserve", source |-> source]
    <3>1. new \in [pc : {"idle", "reserve", "lock", "done"}, source : Nat]
      BY <1>1
    <3>2. click' = [click EXCEPT ![c] = new]
      BY <2>1 DEF Boards!ReadSource, Boards!ReadSection
    <3> HIDE DEF new
    <3> QED
      BY <1>1, <3>1, <3>2
  <2>2. CASE Boards!FindInFlight(c) \/ Boards!Reserve(c) \/ Boards!ReserveRefused(c)
    <3>1. PICK pc \in {"lock", "done"} : click' = [click EXCEPT ![c].pc = pc]
      BY <2>2 DEF Boards!FindInFlight, Boards!Reserve, Boards!ReserveRefused
    <3> QED
      BY <1>1, <3>1
  <2> QED
    BY <2>1, <2>2
<1>3. CASE Boards!Reserve(c)
  <2> DEFINE d == Boards!NewDeck(click[c].source)
             r == Boards!NewRun
             n == Len(deck) + 1
  <2>1. d \in Deck /\ r \in Run /\ Good(d, r)
    BY <1>1 DEF Boards!NewDeck, Boards!NewRun, Boards!NoRun, Deck, Run, Good
  <2>2. deck' = Append(deck, d) /\ run' = Append(run, r) /\ Boards!InFlight = {}
    BY <1>3 DEF Boards!Reserve, Boards!Recheck
  <2>3. \A v \in 1..Len(deck) : deck[v].status # "generating"
    <3> SUFFICES ASSUME NEW v \in 1..Len(deck), deck[v].status = "generating"
                 PROVE  FALSE
      OBVIOUS
    <3>1. v \in DOMAIN deck
      BY <1>1
    <3>2. v \in Boards!InFlight
      BY <3>1 DEF Boards!InFlight
    <3> QED
      BY <2>2, <3>2
  <2> HIDE DEF d, r
  <2>4. /\ deck' \in Seq(Deck) /\ run' \in Seq(Run) /\ Len(deck') = n /\ Len(run') = n
        /\ deck'[n] = d /\ run'[n] = r
        /\ \A v \in 1..Len(deck) : deck'[v] = deck[v] /\ run'[v] = run[v]
    BY <1>1, <2>1, <2>2
  <2>5. \A v \in 1..Len(deck') : v = n \/ v \in 1..Len(deck)
    BY <1>1, <2>4
  <2>6. \A v \in 1..Len(deck) : Good(deck'[v], run'[v])
    BY <2>4 DEF DeckInv
  <2>7. \A v \in 1..Len(deck') : Good(deck'[v], run'[v])
    BY <2>1, <2>4, <2>5, <2>6
  <2>8. OneGenerating'
    BY <2>3, <2>4, <2>5 DEF OneGenerating
  <2>9. BoardTypes'
    BY <1>1, <1>2, <2>4 DEF BoardTypes
  <2> QED
    BY <2>7, <2>8, <2>9 DEF DeckInv
<1>4. CASE ~ Boards!Reserve(c)
  <2>1. UNCHANGED <<deck, run>>
    BY <1>4 DEF Boards!ReadSource, Boards!ReadSection, Boards!FindInFlight, Boards!ReserveRefused
  <2> QED
    BY <1>1, <1>2, <2>1, DecksMove DEF DeckInv
<1> QED
  BY <1>3, <1>4

\* A run calls the provider, and stops.
LEMMA RunKept ==
    ASSUME DeckInv, NEW v \in 1..Len(deck),
           \/ Boards!CallValid(v) \/ Boards!CallTruncated(v)
           \/ Boards!CallInvalid(v) \/ Boards!CallBreaks(v)
    PROVE  DeckInv'
<1>1. /\ deck[v] \in Deck /\ run[v] \in Run /\ Good(deck[v], run[v]) /\ run[v].pc = "call"
      /\ deck \in Seq(Deck) /\ slugs \in Nat
  BY DEF DeckInv, BoardTypes, Boards!CallValid, Boards!CallTruncated, Boards!CallInvalid,
     Boards!CallBreaks, Boards!Calling
<1>2. \E r \in Run : /\ r.pc \in {"call", "finalise", "fail"}
                     /\ run' = [run EXCEPT ![v] = r] /\ UNCHANGED <<deck, click, source, slugs>>
  <2>1. CASE Boards!CallValid(v)
    <3>1. [run[v] EXCEPT !.pc = "finalise"] \in Run
      BY <1>1 DEF Run
    <3> QED
      BY <1>1, <2>1, <3>1 DEF Boards!CallValid, Boards!Becomes, Run
  <2>2. CASE Boards!CallTruncated(v)
    <3>1. [run[v] EXCEPT !.doubled = TRUE] \in Run
      BY <1>1 DEF Run
    <3> QED
      BY <1>1, <2>2, <3>1 DEF Boards!CallTruncated, Boards!Becomes, Run
  <2>3. \A at \in {"escalated", "failover"} :
            Boards!Attempt(at) \in Run /\ Boards!Attempt(at).pc = "call"
    BY DEF Boards!Attempt, Boards!NewRun, Boards!NoRun, Run
  <2>4. Boards!Failing(v) \in Run /\ Boards!Failing(v).pc = "fail"
    BY <1>1 DEF Boards!Failing, Run
  <2>5. CASE Boards!CallInvalid(v)
    <3>1. [run[v] EXCEPT !.repairs = @ + 1] \in Run
          /\ [run[v] EXCEPT !.repairs = @ + 1].pc = "call"
      BY <1>1 DEF Run
    <3> QED
      BY <2>3, <2>4, <2>5, <3>1 DEF Boards!CallInvalid, Boards!Becomes
  <2>6. CASE Boards!CallBreaks(v)
    BY <2>3, <2>4, <2>6 DEF Boards!CallBreaks, Boards!Becomes
  <2> QED
    BY <2>1, <2>2, <2>5, <2>6
<1>3. PICK r \in Run : /\ r.pc \in {"call", "finalise", "fail"}
                       /\ run' = [run EXCEPT ![v] = r] /\ UNCHANGED <<deck, click, source, slugs>>
  BY <1>2
<1>4. deck' = [deck EXCEPT ![v] = deck[v]]
  BY <1>1, <1>3
<1>5. Good(deck[v], r)
  BY <1>1, <1>3 DEF Good
<1> QED
  BY <1>1, <1>3, <1>4, <1>5, DeckMoves

\* A run turns its row ready or failed, or is lost.
LEMMA SettleKept ==
    ASSUME DeckInv, NEW v \in 1..Len(deck),
           \/ Boards!FinaliseReady(v) \/ Boards!FailAndRefund(v) \/ Boards!RunRaises(v)
           \/ Boards!ForceFail(v) \/ Boards!RunDies(v)
    PROVE  DeckInv'
<1> DEFINE ready == Boards!Ready(deck[v])
           failed == Boards!Refunded(deck[v])
           forced == [run[v] EXCEPT !.pc = "force"]
<1>1. /\ deck[v] \in Deck /\ run[v] \in Run /\ Good(deck[v], run[v])
      /\ deck \in Seq(Deck) /\ run \in Seq(Run) /\ Len(run) = Len(deck) /\ slugs \in Nat
  BY DEF DeckInv, BoardTypes
<1>2. /\ ready \in Deck /\ ready.status = "ready" /\ ready.paid = deck[v].paid
      /\ ready.old = deck[v].old
      /\ failed \in Deck /\ failed.status = "failed" /\ ~ failed.paid
      /\ failed.old = deck[v].old
  BY <1>1 DEF Boards!Ready, Boards!Refunded, Deck
<1>3. /\ forced \in Run /\ forced.pc = "force"
      /\ Boards!NoRun \in Run /\ Boards!NoRun.pc = "gone"
  BY <1>1 DEF Boards!NoRun, Run
<1>4. UNCHANGED <<click, source, slugs>>
  BY DEF Boards!FinaliseReady, Boards!FailAndRefund, Boards!RunRaises, Boards!ForceFail,
     Boards!RunDies
<1>5. \E d \in Deck, r \in Run :
          /\ deck' = [deck EXCEPT ![v] = d] /\ run' = [run EXCEPT ![v] = r]
          /\ Good(d, r) /\ (d.status = "generating" => deck[v].status = "generating")
  <2>1. CASE Boards!FinaliseReady(v)
    <3>1. deck' = [deck EXCEPT ![v] = ready] /\ run' = [run EXCEPT ![v] = Boards!NoRun]
      BY <1>1, <2>1 DEF Boards!FinaliseReady
    <3>2. Good(ready, Boards!NoRun)
      BY <1>1, <1>2, <1>3, <2>1 DEF Good, Boards!FinaliseReady
    <3> QED
      BY <1>2, <1>3, <3>1, <3>2
  <2>2. CASE Boards!FailAndRefund(v) \/ Boards!ForceFail(v)
    <3>1. deck' = [deck EXCEPT ![v] = failed] /\ run' = [run EXCEPT ![v] = Boards!NoRun]
      BY <1>1, <2>2 DEF Boards!FailAndRefund, Boards!ForceFail
    <3>2. Good(failed, Boards!NoRun)
      BY <1>2, <1>3 DEF Good
    <3> QED
      BY <1>2, <1>3, <3>1, <3>2
  <2>3. CASE Boards!RunRaises(v)
    <3>1. /\ run' = [run EXCEPT ![v] = forced]
          /\ run[v].pc \in {"call", "finalise", "fail"}
          /\ \/ deck' = deck
             \/ deck' = [deck EXCEPT ![v] = ready]
             \/ deck' = [deck EXCEPT ![v] = failed]
      BY <1>1, <2>3 DEF Boards!RunRaises
    <3>2. Good(deck[v], forced) /\ Good(ready, forced) /\ Good(failed, forced)
      BY <1>1, <1>2, <1>3, <3>1 DEF Good
    <3>3. deck' = deck => deck' = [deck EXCEPT ![v] = deck[v]]
      BY <1>1
    <3> QED
      BY <1>1, <1>2, <1>3, <3>1, <3>2, <3>3
  <2>4. CASE Boards!RunDies(v)
    <3>1. deck' = deck /\ run' = [run EXCEPT ![v] = Boards!NoRun]
      BY <2>4 DEF Boards!RunDies
    <3>2. deck' = [deck EXCEPT ![v] = deck[v]]
      BY <1>1, <3>1
    <3>3. Good(deck[v], Boards!NoRun)
      BY <1>1, <1>3 DEF Good
    <3> QED
      BY <1>1, <1>3, <3>1, <3>2, <3>3
  <2> QED
    BY <2>1, <2>2, <2>3, <2>4
<1>6. slugs' \in Nat
  BY <1>1, <1>4
<1> QED
  BY <1>4, <1>5, <1>6, DeckMoves

\* A row ages, or is shared.
LEMMA ShareKept ==
    ASSUME ~ Slow, DeckInv, NEW v \in 1..Len(deck),
           \/ Boards!Ages(v) \/ Boards!EnableShare(v) \/ Boards!DisableShare(v)
           \/ Boards!RotateShare(v)
    PROVE  DeckInv'
<1>1. /\ deck[v] \in Deck /\ run[v] \in Run /\ Good(deck[v], run[v])
      /\ deck \in Seq(Deck) /\ run \in Seq(Run) /\ Len(run) = Len(deck) /\ slugs \in Nat
  BY DEF DeckInv, BoardTypes
<1>2. UNCHANGED <<run, click, source>>
  BY DEF Boards!Ages, Boards!EnableShare, Boards!DisableShare, Boards!RotateShare
<1>3. Boards!SlugOf(v) \in Nat
  BY <1>1 DEF Boards!SlugOf, Deck
<1>4. slugs' \in Nat
  BY <1>1, <1>3 DEF Boards!Ages, Boards!EnableShare, Boards!DisableShare, Boards!RotateShare
<1>5. \E d \in Deck :
          /\ deck' = [deck EXCEPT ![v] = d] /\ d.status = deck[v].status /\ d.paid = deck[v].paid
          /\ d.old => deck[v].old \/ run[v].pc = "gone"
  <2>1. CASE Boards!Ages(v)
    <3> DEFINE d == [deck[v] EXCEPT !.old = TRUE]
    <3>1. d \in Deck /\ d.status = deck[v].status /\ d.paid = deck[v].paid
      BY <1>1 DEF Deck
    <3>2. deck' = [deck EXCEPT ![v] = d] /\ run[v].pc = "gone"
      BY <1>1, <2>1 DEF Boards!Ages
    <3> QED
      BY <3>1, <3>2
  <2>2. ASSUME NEW slug \in Nat, NEW shared \in BOOLEAN,
               deck' = [deck EXCEPT ![v].slug = slug, ![v].shared = shared]
        PROVE  \E d \in Deck :
                  /\ deck' = [deck EXCEPT ![v] = d] /\ d.status = deck[v].status
                  /\ d.paid = deck[v].paid /\ d.old = deck[v].old
    <3> DEFINE d == [deck[v] EXCEPT !.slug = slug, !.shared = shared]
    <3>1. d \in Deck /\ d.status = deck[v].status /\ d.paid = deck[v].paid /\ d.old = deck[v].old
      BY <1>1 DEF Deck
    <3>2. deck' = [deck EXCEPT ![v] = d]
      BY <1>1, <2>2 DEF Deck
    <3> QED
      BY <3>1, <3>2
  <2>3. CASE Boards!EnableShare(v)
    <3>1. deck' = [deck EXCEPT ![v].slug = Boards!SlugOf(v), ![v].shared = TRUE]
      BY <2>3 DEF Boards!EnableShare
    <3> QED
      BY <1>3, <2>2, <3>1
  <2>4. CASE Boards!RotateShare(v)
    <3>1. deck' = [deck EXCEPT ![v].slug = slugs + 1, ![v].shared = TRUE] /\ slugs + 1 \in Nat
      BY <1>1, <2>4 DEF Boards!RotateShare
    <3> QED
      BY <2>2, <3>1
  <2>5. CASE Boards!DisableShare(v)
    <3> DEFINE d == [deck[v] EXCEPT !.shared = FALSE]
    <3>1. d \in Deck /\ d.status = deck[v].status /\ d.paid = deck[v].paid /\ d.old = deck[v].old
      BY <1>1 DEF Deck
    <3>2. deck' = [deck EXCEPT ![v] = d]
      BY <1>1, <2>5 DEF Boards!DisableShare
    <3> QED
      BY <3>1, <3>2
  <2> QED
    BY <2>1, <2>3, <2>4, <2>5
<1>6. PICK d \in Deck :
          /\ deck' = [deck EXCEPT ![v] = d] /\ d.status = deck[v].status /\ d.paid = deck[v].paid
          /\ d.old => deck[v].old \/ run[v].pc = "gone"
  BY <1>5
<1>7. run' = [run EXCEPT ![v] = run[v]]
  BY <1>1, <1>2
<1>8. Good(d, run[v])
  BY <1>1, <1>6 DEF Good
<1> QED
  BY <1>1, <1>2, <1>4, <1>6, <1>7, <1>8, DeckMoves

\* The sweep fails rows, and a new source makes rows stale.
LEMMA SweepKept ==
    ASSUME DeckInv, Boards!RecoverStuck \/ Boards!Refinalise
    PROVE  DeckInv'
<1>1. /\ deck \in Seq(Deck) /\ run \in Seq(Run) /\ Len(run) = Len(deck) /\ source \in Nat
      /\ slugs \in Nat /\ DOMAIN deck = 1..Len(deck)
      /\ \A v \in 1..Len(deck) : deck[v] \in Deck /\ run[v] \in Run /\ Good(deck[v], run[v])
      /\ click \in [Click -> [pc : {"idle", "reserve", "lock", "done"}, source : Nat]]
  BY DEF DeckInv, BoardTypes
<1>2. UNCHANGED <<run, click, slugs>> /\ source' \in Nat
  BY <1>1 DEF Boards!RecoverStuck, Boards!Refinalise
<1>3. PICK new \in [1..Len(deck) -> Deck] :
          /\ deck' = new
          /\ \A v \in 1..Len(deck) :
                /\ Good(new[v], run[v])
                /\ new[v].status = "generating" => deck[v].status = "generating"
  <2>1. CASE Boards!RecoverStuck
    <3> DEFINE stuck == {v \in Boards!InFlight : deck[v].old}
               new == [v \in 1..Len(deck) |-> IF v \in stuck THEN Boards!Refunded(deck[v])
                                              ELSE deck[v]]
    <3>1. deck' = new
      BY <1>1, <2>1 DEF Boards!RecoverStuck
    <3>2. \A v \in 1..Len(deck) :
             LET f == Boards!Refunded(deck[v])
             IN  f \in Deck /\ f.status = "failed" /\ ~ f.paid /\ f.old = deck[v].old
      BY <1>1 DEF Boards!Refunded, Deck
    <3>3. \A v \in stuck : deck[v].old /\ run[v].pc = "gone"
      BY <1>1 DEF Boards!InFlight, Good
    <3>4. ASSUME NEW v \in 1..Len(deck)
          PROVE  /\ new[v] \in Deck /\ Good(new[v], run[v])
                 /\ new[v].status = "generating" => deck[v].status = "generating"
      <4>1. CASE v \in stuck
        <5>1. new[v] = Boards!Refunded(deck[v])
          BY <4>1
        <5> HIDE DEF new, stuck
        <5> QED
          BY <3>2, <3>3, <4>1, <5>1 DEF Good
      <4>2. CASE v \notin stuck
        <5>1. new[v] = deck[v]
          BY <4>2
        <5> HIDE DEF new, stuck
        <5> QED
          BY <1>1, <5>1
      <4> QED
        BY <4>1, <4>2
    <3>5. new \in [1..Len(deck) -> Deck]
      BY <3>4
    <3> HIDE DEF new
    <3> QED
      BY <3>1, <3>4, <3>5
  <2>2. CASE Boards!Refinalise
    <3> DEFINE new == [v \in 1..Len(deck) |-> IF deck[v].status = "ready"
                                              THEN [deck[v] EXCEPT !.status = "stale"] ELSE deck[v]]
    <3>1. deck' = new
      BY <1>1, <2>2 DEF Boards!Refinalise
    <3>2. \A v \in 1..Len(deck) :
             LET f == [deck[v] EXCEPT !.status = "stale"]
             IN  f \in Deck /\ f.status = "stale" /\ f.paid = deck[v].paid /\ f.old = deck[v].old
      BY <1>1 DEF Deck
    <3>3. ASSUME NEW v \in 1..Len(deck)
          PROVE  /\ new[v] \in Deck /\ Good(new[v], run[v])
                 /\ new[v].status = "generating" => deck[v].status = "generating"
      <4>1. CASE deck[v].status = "ready"
        <5>1. new[v] = [deck[v] EXCEPT !.status = "stale"]
          BY <4>1
        <5> HIDE DEF new
        <5> QED
          BY <1>1, <3>2, <4>1, <5>1 DEF Good
      <4>2. CASE deck[v].status # "ready"
        <5>1. new[v] = deck[v]
          BY <4>2
        <5> HIDE DEF new
        <5> QED
          BY <1>1, <5>1
      <4> QED
        BY <4>1, <4>2
    <3>4. new \in [1..Len(deck) -> Deck]
      BY <3>3
    <3> HIDE DEF new
    <3> QED
      BY <3>1, <3>3, <3>4
  <2> QED
    BY <2>1, <2>2
<1>4. deck' \in Seq(Deck) /\ Len(deck') = Len(deck)
  <2>1. Len(deck) \in Nat
    BY <1>1
  <2>2. new \in Seq(Deck) /\ Len(new) = Len(deck)
    BY <2>1
  <2> QED
    BY <1>3, <2>2
<1> QED
  BY <1>1, <1>2, <1>3, <1>4, DecksMove

LEMMA DeckKept ==
    ASSUME ~ Slow, DeckInv, [Boards!Next]_(Boards!vars)
    PROVE  DeckInv'
<1>1. CASE \E c \in Click : \/ Boards!ReadSource(c) \/ Boards!ReadSection(c)
                            \/ Boards!FindInFlight(c) \/ Boards!Reserve(c)
                            \/ Boards!ReserveRefused(c)
  BY <1>1, ClickKept
<1>2. CASE \E v \in DOMAIN deck : Boards!Step(v)
  <2>1. DOMAIN deck = 1..Len(deck)
    BY DEF DeckInv, BoardTypes
  <2> QED
    BY <1>2, <2>1, RunKept, SettleKept, ShareKept DEF Boards!Step
<1>3. CASE Boards!RecoverStuck \/ Boards!Refinalise
  BY <1>3, SweepKept
<1>4. CASE UNCHANGED Boards!vars
  BY <1>4 DEF Boards!vars, DeckInv, BoardTypes, OneGenerating
<1> QED
  BY <1>1, <1>2, <1>3, <1>4 DEF Boards!Next

LEMMA OneInFlightHolds ==
    ASSUME DeckInv
    PROVE  Boards!OneInFlight
<1> DEFINE S == Boards!InFlight
<1>1. S = {} \/ \E v \in S : S = {v}
  <2>1. \A v, w \in S : v = w
    BY DEF DeckInv, BoardTypes, OneGenerating, Boards!InFlight
  <2> QED
    BY <2>1
<1>2. Boards!Cardinality(S) = Cardinality(S)
  BY DEF Boards!Cardinality, Cardinality
<1> HIDE DEF S
<1>3. Cardinality(S) \in {0, 1}
  BY <1>1, FS_EmptySet, FS_Singleton
<1> QED
  BY <1>2, <1>3 DEF Boards!OneInFlight, S

(***************************************************************************)
(* A workspace pays for one deck at a time, and has paid exactly for the   *)
(* decks it can see or waits for, through failing calls, repairs,          *)
(* failovers, lost processes and the sweep (_reserve, _finalise_ready,     *)
(* _fail_and_refund, recover_stuck_storyboards), as long as no run         *)
(* outlives the sweep's threshold: then a refunded deck becomes ready.     *)
(***************************************************************************)
THEOREM DecksCharged ==
    ASSUME ~ Slow
    PROVE  Boards!Spec => []Boards!ChargedIffServed
<1>1. Boards!Init => DeckInv
  BY DecksStart
<1>2. DeckInv /\ [Boards!Next]_(Boards!vars) => DeckInv'
  BY DeckKept
<1>3. DeckInv => Boards!ChargedIffServed
  <2>1. DeckInv => Boards!DeckPaid
    BY DEF DeckInv, BoardTypes, Good, Boards!DeckPaid
  <2> QED
    BY <2>1, OneInFlightHolds DEF Boards!ChargedIffServed
<1> QED
  BY <1>1, <1>2, <1>3, PTL DEF Boards!Spec

-----------------------------------------------------------------------------
(* Increments.                                                             *)

Places == {"none", "queued", "wait", "sync", "finish"} \cup Grow!Task

Serving == {"ready", "pushed"}

GrowTypes ==
    /\ versions \in Seq(SUBSET Grow!Task) /\ Len(versions) >= 1
    /\ DOMAIN inc = Inc /\ \A i \in Inc : DOMAIN inc[i] = {"status", "paid", "seq"}
    /\ DOMAIN req = Inc /\ \A i \in Inc : DOMAIN req[i] = {"pc", "version", "seq"}
    /\ idea \in [Grow!Ideas -> Inc \cup {"open"}]
    /\ pushes \in [Inc -> [pc : Places, version : Nat]]
    /\ taskRows \in [Grow!Task -> {"none", "baseline"} \cup Inc]
    /\ opened \in [Grow!Task -> Int]
    /\ outcome \in [Inc -> {"none", "appended", "overwritten"}]
    /\ sweeping \subseteq Inc
    /\ orphans \in Nat

\* How far a request is says what its row may be; once its tasks are appended the
\* row serves until a sweep overwrites it, and only such a row is pushed.
RowGood(i) ==
    /\ req[i].pc \in {"new", "reserve"} => inc[i].status = "none" /\ i \notin sweeping
    /\ req[i].pc \in {"new", "reserve", "call", "finalise"} => outcome[i] = "none"
    /\ req[i].pc \in {"call", "finalise"} => inc[i].status \in {"generating", "draft"}
    /\ req[i].pc = "promote" \/ pushes[i].pc # "none" => outcome[i] # "none"
    /\ outcome[i] = "none" => inc[i].status \notin Serving
    /\ outcome[i] = "appended" => inc[i].status \in Serving
    /\ outcome[i] # "overwritten" =>
          /\ inc[i].status \in {"generating", "ready", "pushed"} => inc[i].paid
          /\ inc[i].status = "draft" => ~ inc[i].paid

\* A request plans against a version there is.
Planned(i) ==
    req[i].pc \in {"reserve", "call", "finalise"} => req[i].version \in 1..Len(versions)

\* An idea is planned in an increment that has appended its tasks.
IdeasServed == \A d \in Grow!Ideas : idea[d] # "open" => outcome[idea[d]] # "none"

\* The job that synchronises holds the repository, and what it is recording has no row.
RepoHeld ==
    \A i \in Inc :
        /\ pushes[i].pc \in {"sync"} \cup Grow!Task => repo = i
        /\ pushes[i].pc \in Grow!Task => taskRows[pushes[i].pc] = "none"

\* The jobs that record the issue of a task.
Recording(t) == {i \in Inc : pushes[i].pc = t}

IssuesBound ==
    \A t \in Grow!Task :
        opened[t] <= orphans + (IF taskRows[t] = "none" THEN 0 ELSE 1) + Cardinality(Recording(t))

PushInv == RepoHeld /\ IssuesBound

GrowInv ==
    /\ GrowTypes
    /\ \A i \in Inc : RowGood(i) /\ Planned(i)
    /\ IdeasServed
    /\ Grow!TasksKept
    /\ PushInv

LEMMA GrowStarts ==
    ASSUME Grow!IncrementsAssumption
    PROVE  Grow!Init => GrowInv
<1> SUFFICES ASSUME Grow!Init PROVE GrowInv
  OBVIOUS
<1>1. Baseline \in SUBSET Grow!Task
  BY DEF Grow!Task
<1>2. GrowTypes
  BY <1>1 DEF Grow!Init, GrowTypes, Grow!NoJob, Places
<1>3. \A i \in Inc : RowGood(i) /\ Planned(i)
  BY DEF Grow!Init, RowGood, Planned, Serving, Grow!NoJob
<1>4. IdeasServed /\ Grow!TasksKept
  BY DEF Grow!Init, IdeasServed, Grow!TasksKept, Grow!Current
<1>5. RepoHeld
  BY DEF Grow!Init, RepoHeld, Grow!NoJob, Grow!IncrementsAssumption
<1>6. IssuesBound
  <2> SUFFICES ASSUME NEW t \in Grow!Task
               PROVE  opened[t] <= orphans + (IF taskRows[t] = "none" THEN 0 ELSE 1)
                                   + Cardinality(Recording(t))
    BY DEF IssuesBound
  <2>1. Recording(t) = {}
    BY DEF Grow!Init, Recording, Grow!NoJob, Grow!IncrementsAssumption
  <2>2. Cardinality(Recording(t)) = 0
    BY <2>1, FS_EmptySet
  <2> QED
    BY <2>2 DEF Grow!Init
<1> QED
  BY <1>2, <1>3, <1>4, <1>5, <1>6 DEF GrowInv, PushInv

\* A version is appended that keeps the tasks of the last one, or is edited.
VersionStep ==
    \/ versions' = versions
    \/ \E v \in SUBSET Grow!Task :
          /\ versions' = Append(versions, v)
          /\ v = Edited \/ versions[Len(versions)] \subseteq v

LEMMA VersionsGrow ==
    ASSUME GrowInv, VersionStep
    PROVE  /\ versions' \in Seq(SUBSET Grow!Task) /\ Len(versions') \in Nat
           /\ Len(versions) \in Nat /\ Len(versions) >= 1 /\ Len(versions') >= Len(versions)
           /\ Grow!TasksKept'
<1>1. versions \in Seq(SUBSET Grow!Task) /\ Len(versions) \in Nat /\ Len(versions) >= 1
  BY DEF GrowInv, GrowTypes
<1>2. CASE versions' = versions
  BY <1>1, <1>2 DEF GrowInv, Grow!TasksKept, Grow!Current
<1>3. CASE versions' # versions
  <2>1. PICK v \in SUBSET Grow!Task :
              /\ versions' = Append(versions, v)
              /\ v = Edited \/ versions[Len(versions)] \subseteq v
    BY <1>3 DEF VersionStep
  <2>2. /\ Len(versions') = Len(versions) + 1 /\ versions'[Len(versions) + 1] = v
        /\ \A n \in 1..Len(versions) : versions'[n] = versions[n]
    BY <1>1, <2>1
  <2>3. ASSUME NEW n \in 2..Len(versions')
        PROVE  versions'[n] = Edited \/ versions'[n - 1] \subseteq versions'[n]
    <3>1. CASE n = Len(versions) + 1
      <4>1. n - 1 = Len(versions) /\ n - 1 \in 1..Len(versions)
        BY <1>1, <3>1
      <4> QED
        BY <2>1, <2>2, <3>1, <4>1
    <3>2. CASE n # Len(versions) + 1
      <4>1. n \in 2..Len(versions) /\ n \in 1..Len(versions) /\ n - 1 \in 1..Len(versions)
        BY <1>1, <2>2, <3>2
      <4>2. versions[n] = Edited \/ versions[n - 1] \subseteq versions[n]
        BY <4>1 DEF GrowInv, Grow!TasksKept, Grow!Current
      <4> QED
        BY <2>2, <4>1, <4>2
    <3> QED
      BY <3>1, <3>2
  <2> QED
    BY <1>1, <2>1, <2>2, <2>3 DEF Grow!TasksKept, Grow!Current
<1> QED
  BY <1>2, <1>3

\* A step of a request: one row and its request move.
LEMMA RequestMoves ==
    ASSUME GrowInv, NEW i \in Inc, UNCHANGED Grow!pushVars, VersionStep,
           DOMAIN inc' = Inc, DOMAIN inc'[i] = {"status", "paid", "seq"},
           DOMAIN req' = Inc, DOMAIN req'[i] = {"pc", "version", "seq"},
           \A j \in Inc : j # i => inc'[j] = inc[j] /\ req'[j] = req[j],
           sweeping' = sweeping, outcome' \in [Inc -> {"none", "appended", "overwritten"}],
           \A j \in Inc : outcome'[j] = outcome[j] \/ (j = i /\ outcome'[j] = "appended"),
           RowGood(i)', Planned(i)',
           idea' \in [Grow!Ideas -> Inc \cup {"open"}],
           \A d \in Grow!Ideas : idea'[d] = idea[d] \/ (idea'[d] = i /\ outcome'[i] # "none")
    PROVE  GrowInv'
<1>1. \A j \in Inc : RowGood(j) /\ Planned(j)
  BY DEF GrowInv
<1>2. UNCHANGED <<pushes, taskRows, opened, repo, orphans>>
  BY DEF Grow!pushVars
<1>3. /\ versions' \in Seq(SUBSET Grow!Task) /\ Len(versions') \in Nat
      /\ Len(versions) \in Nat /\ Len(versions) >= 1 /\ Len(versions') >= Len(versions)
      /\ Grow!TasksKept'
  BY VersionsGrow
<1>4. GrowTypes'
  <2>1. \A j \in Inc : /\ DOMAIN inc'[j] = {"status", "paid", "seq"}
                       /\ DOMAIN req'[j] = {"pc", "version", "seq"}
    BY DEF GrowInv, GrowTypes
  <2>2. /\ pushes' \in [Inc -> [pc : Places, version : Nat]]
        /\ taskRows' \in [Grow!Task -> {"none", "baseline"} \cup Inc]
        /\ opened' \in [Grow!Task -> Int] /\ orphans' \in Nat /\ sweeping' \subseteq Inc
    BY <1>2 DEF GrowInv, GrowTypes
  <2> QED
    BY <1>3, <2>1, <2>2 DEF GrowTypes
<1>5. \A j \in Inc : j # i => RowGood(j)' /\ Planned(j)'
  <2> SUFFICES ASSUME NEW j \in Inc, j # i PROVE RowGood(j)' /\ Planned(j)'
    OBVIOUS
  <2>1. outcome'[j] = outcome[j] /\ inc'[j] = inc[j] /\ req'[j] = req[j] /\ pushes' = pushes
    BY <1>2
  <2>2. RowGood(j)'
    BY <1>1, <2>1 DEF RowGood
  <2>3. Planned(j)'
    BY <1>1, <1>3, <2>1 DEF Planned
  <2> QED
    BY <2>2, <2>3
<1>6. IdeasServed'
  <2> SUFFICES ASSUME NEW d \in Grow!Ideas, idea'[d] # "open"
               PROVE  outcome'[idea'[d]] # "none"
    BY DEF IdeasServed
  <2>1. CASE idea'[d] = idea[d]
    <3>1. idea[d] \in Inc /\ outcome[idea[d]] # "none"
      BY <2>1 DEF GrowInv, GrowTypes, IdeasServed
    <3> QED
      BY <2>1, <3>1
  <2>2. CASE idea'[d] = i /\ outcome'[i] # "none"
    BY <2>2
  <2> QED
    BY <2>1, <2>2
<1>7. PushInv'
  BY <1>2 DEF GrowInv, PushInv, RepoHeld, IssuesBound, Recording
<1> QED
  BY <1>3, <1>4, <1>5, <1>6, <1>7 DEF GrowInv


\* Every handler of a request is such a step of it.
LEMMA RequestKeeps ==
    ASSUME GrowInv, NEW i \in Inc, Grow!Request(i)
    PROVE  GrowInv'
<1> DEFINE row == inc[i]
           call == req[i]
<1>1. /\ DOMAIN inc = Inc /\ DOMAIN row = {"status", "paid", "seq"}
      /\ DOMAIN req = Inc /\ DOMAIN call = {"pc", "version", "seq"}
      /\ idea \in [Grow!Ideas -> Inc \cup {"open"}]
      /\ versions \in Seq(SUBSET Grow!Task) /\ Len(versions) \in Nat /\ Len(versions) >= 1
      /\ outcome \in [Inc -> {"none", "appended", "overwritten"}]
      /\ RowGood(i) /\ Planned(i)
  BY DEF GrowInv, GrowTypes
<1>2. CASE Grow!ReadBaseline(i)
  <2> USE <1>2 DEF Grow!ReadBaseline
  <2>1. /\ UNCHANGED <<versions, inc, idea, sweeping, outcome, Grow!pushVars>>
        /\ DOMAIN req' = Inc /\ \A j \in Inc : j # i => req'[j] = req[j]
        /\ DOMAIN req'[i] = {"pc", "version", "seq"}
        /\ req'[i].pc = "reserve" /\ req'[i].version = Len(versions) /\ call.pc = "new"
    BY <1>1 DEF Grow!Current, Grow!sweepVars
  <2>2. RowGood(i)' /\ Planned(i)'
    BY <1>1, <2>1 DEF RowGood, Planned, Serving, Grow!pushVars
  <2> QED
    BY <1>1, <2>1, <2>2, RequestMoves DEF VersionStep
<1>3. CASE Grow!Reserve(i)
  <2> USE <1>3 DEF Grow!Reserve
  <2>1. /\ UNCHANGED <<versions, idea, sweeping, outcome, Grow!pushVars>>
        /\ DOMAIN inc' = Inc /\ DOMAIN req' = Inc
        /\ \A j \in Inc : j # i => inc'[j] = inc[j] /\ req'[j] = req[j]
        /\ DOMAIN inc'[i] = {"status", "paid", "seq"} /\ DOMAIN req'[i] = {"pc", "version", "seq"}
        /\ inc'[i].status = "generating" /\ inc'[i].paid
        /\ req'[i].pc = "call" /\ req'[i].version = call.version /\ call.pc = "reserve"
    BY <1>1 DEF Grow!sweepVars
  <2>2. row.status = "none"
    BY <1>1, <2>1 DEF RowGood
  <2>3. RowGood(i)' /\ Planned(i)'
    BY <1>1, <2>1, <2>2 DEF RowGood, Planned, Serving, Grow!pushVars
  <2> QED
    BY <1>1, <2>1, <2>3, RequestMoves DEF VersionStep
<1>4. CASE \/ Grow!ReserveRefused(i) \/ Grow!Answer(i) \/ Grow!FinaliseFails(i) \/ Grow!Die(i)
  <2>1. /\ UNCHANGED <<versions, inc, idea, sweeping, outcome, Grow!pushVars>>
        /\ DOMAIN req' = Inc /\ \A j \in Inc : j # i => req'[j] = req[j]
        /\ DOMAIN req'[i] = {"pc", "version", "seq"} /\ req'[i].version = call.version
        /\ \/ req'[i].pc = "over"
           \/ call.pc = "call" /\ req'[i].pc = "finalise"
    BY <1>1, <1>4 DEF Grow!ReserveRefused, Grow!Answer, Grow!FinaliseFails, Grow!Die,
                       Grow!sweepVars
  <2>2. RowGood(i)' /\ Planned(i)'
    BY <1>1, <2>1 DEF RowGood, Planned, Serving, Grow!pushVars
  <2> QED
    BY <1>1, <2>1, <2>2, RequestMoves DEF VersionStep
<1>5. CASE Grow!AnswerFails(i)
  <2>1. /\ UNCHANGED <<versions, idea, sweeping, outcome, Grow!pushVars>>
        /\ DOMAIN inc' = Inc /\ DOMAIN req' = Inc
        /\ \A j \in Inc : j # i => inc'[j] = inc[j] /\ req'[j] = req[j]
        /\ DOMAIN inc'[i] = {"status", "paid", "seq"} /\ DOMAIN req'[i] = {"pc", "version", "seq"}
        /\ inc'[i].status = "draft" /\ ~ inc'[i].paid
        /\ req'[i].pc = "over" /\ call.pc = "call"
    BY <1>1, <1>5 DEF Grow!AnswerFails, Grow!Drafted, Grow!sweepVars
  <2>2. row.status \in {"generating", "draft"}
    BY <1>1, <2>1 DEF RowGood
  <2>3. RowGood(i)' /\ Planned(i)'
    BY <1>1, <2>1, <2>2 DEF RowGood, Planned, Serving, Grow!pushVars
  <2> QED
    BY <1>1, <2>1, <2>3, RequestMoves DEF VersionStep
<1>6. CASE Grow!FinaliseIncrement(i)
  <2>1. /\ call.pc = "finalise" /\ row.status = "generating" /\ UNCHANGED <<idea, sweeping, Grow!pushVars>>
        /\ versions' = Append(versions, versions[call.version] \cup Grow!Delta(i))
        /\ call.version + 1 \notin 1..Len(versions)
        /\ DOMAIN inc' = Inc /\ DOMAIN req' = Inc
        /\ \A j \in Inc : j # i => inc'[j] = inc[j] /\ req'[j] = req[j]
        /\ DOMAIN inc'[i] = {"status", "paid", "seq"} /\ DOMAIN req'[i] = {"pc", "version", "seq"}
        /\ inc'[i].status = "ready" /\ inc'[i].paid = row.paid
        /\ req'[i].pc = "promote" /\ outcome' = [outcome EXCEPT ![i] = "appended"]
    BY <1>1, <1>6 DEF Grow!FinaliseIncrement, Grow!StillMine, Grow!Numbered
  <2>2. call.version = Len(versions)
    <3>1. call.version \in 1..Len(versions)
      BY <1>1, <2>1 DEF Planned
    <3> QED
      BY <1>1, <2>1, <3>1
  <2>4. /\ outcome' \in [Inc -> {"none", "appended", "overwritten"}] /\ outcome'[i] = "appended"
        /\ \A j \in Inc : j # i => outcome'[j] = outcome[j]
    BY <1>1, <2>1
  <2>3. RowGood(i)' /\ Planned(i)'
    BY <1>1, <2>1, <2>4 DEF RowGood, Planned, Serving, Grow!pushVars
  <2> DEFINE v == versions[call.version] \cup Grow!Delta(i)
  <2>5. v \in SUBSET Grow!Task /\ versions[Len(versions)] \subseteq v
    <3>1. versions[call.version] \subseteq Grow!Task
      BY <1>1, <2>2
    <3>2. Grow!Delta(i) \subseteq Grow!Task
      BY DEF Grow!Delta, Grow!Task
    <3> QED
      BY <2>2, <3>1, <3>2
  <2>6. VersionStep
    BY <2>1, <2>5 DEF VersionStep
  <2> QED
    BY <1>1, <2>1, <2>3, <2>4, <2>6, RequestMoves
<1>7. CASE Grow!Promote(i)
  <2>1. /\ UNCHANGED <<versions, inc, sweeping, outcome, Grow!pushVars>> /\ call.pc = "promote"
        /\ DOMAIN req' = Inc /\ \A j \in Inc : j # i => req'[j] = req[j]
        /\ DOMAIN req'[i] = {"pc", "version", "seq"} /\ req'[i].pc = "over"
    BY <1>1, <1>7 DEF Grow!Promote, Grow!sweepVars
  <2>2. RowGood(i)' /\ Planned(i)'
    BY <1>1, <2>1 DEF RowGood, Planned, Serving, Grow!pushVars
  <2>3. outcome'[i] # "none"
    BY <1>1, <2>1 DEF RowGood
  <2>4. /\ idea' \in [Grow!Ideas -> Inc \cup {"open"}]
        /\ \A d \in Grow!Ideas : idea'[d] = idea[d] \/ idea'[d] = i
    BY <1>1, <1>7 DEF Grow!Promote
  <2> QED
    BY <1>1, <2>1, <2>2, <2>3, <2>4, RequestMoves DEF VersionStep
<1> QED
  BY <1>2, <1>3, <1>4, <1>5, <1>6, <1>7 DEF Grow!Request

\* The sweep drafts what it has read, and marks what had been appended meanwhile.
LEMMA RecoveryKeeps ==
    ASSUME GrowInv, Grow!RecoverRead \/ Grow!RecoverWrite \/ Grow!RecoverFails
    PROVE  GrowInv'
<1>1. /\ UNCHANGED <<versions, req, idea, pushes, taskRows, opened, repo, orphans>>
      /\ DOMAIN inc' = Inc /\ outcome' \in [Inc -> {"none", "appended", "overwritten"}]
      /\ \A i \in Inc : DOMAIN inc'[i] = {"status", "paid", "seq"}
      /\ sweeping' \subseteq Inc
  BY DEF GrowInv, GrowTypes, Grow!RecoverRead, Grow!RecoverWrite, Grow!RecoverFails,
         Grow!Drafted, Grow!pushVars
<1>2. ASSUME NEW i \in Inc PROVE RowGood(i)' /\ (outcome[i] = "none" <=> outcome'[i] = "none")
  <2>1. RowGood(i) /\ DOMAIN inc[i] = {"status", "paid", "seq"} /\ inc[i] = inc[i]
    BY DEF GrowInv, GrowTypes
  <2>2. CASE inc'[i] = inc[i] /\ outcome'[i] = outcome[i]
             /\ (i \in sweeping' => i \in sweeping \/ inc[i].status = "generating")
    BY <1>1, <2>1, <2>2 DEF RowGood
  <2>3. CASE i \in sweeping /\ i \notin sweeping' /\ inc'[i].status = "draft" /\ ~ inc'[i].paid
             /\ outcome'[i] = IF outcome[i] = "appended" THEN "overwritten" ELSE outcome[i]
    BY <1>1, <2>1, <2>3 DEF RowGood, Serving
  <2>4. CASE Grow!RecoverRead \/ Grow!RecoverFails
    BY <2>2, <2>4 DEF Grow!RecoverRead, Grow!RecoverFails
  <2>5. CASE Grow!RecoverWrite
    <3>1. outcome \in [Inc -> {"none", "appended", "overwritten"}]
      BY DEF GrowInv, GrowTypes
    <3>2. CASE i \in sweeping
      BY <2>1, <2>3, <2>5, <3>2 DEF Grow!RecoverWrite, Grow!Drafted
    <3>3. CASE i \notin sweeping
      BY <2>2, <2>5, <3>3 DEF Grow!RecoverWrite
    <3> QED
      BY <3>2, <3>3
  <2> QED
    BY <2>4, <2>5
<1>3. GrowTypes' /\ Grow!TasksKept' /\ PushInv' /\ \A i \in Inc : Planned(i)'
  BY <1>1 DEF GrowInv, GrowTypes, Grow!TasksKept, Grow!Current, PushInv, RepoHeld, IssuesBound,
              Recording, Planned
<1>4. IdeasServed'
  BY <1>1, <1>2 DEF GrowInv, GrowTypes, IdeasServed
<1> QED
  BY <1>2, <1>3, <1>4 DEF GrowInv

\* The stage moves on under the requests: an edit appends the user's own tasks.
LEMMA StageKeeps ==
    ASSUME GrowInv, Grow!EditTasks \/ Grow!Unlock \/ Grow!Finalise
    PROVE  GrowInv'
<1>1. UNCHANGED <<inc, req, idea, pushes, taskRows, opened, repo, sweeping, outcome, orphans>>
  BY DEF Grow!EditTasks, Grow!Unlock, Grow!Finalise, Grow!pushVars, Grow!sweepVars
<1>2. VersionStep
  <2>1. Edited \in SUBSET Grow!Task
    BY DEF Grow!Task
  <2> QED
    BY <2>1 DEF Grow!EditTasks, Grow!Unlock, Grow!Finalise, VersionStep
<1>3. /\ versions' \in Seq(SUBSET Grow!Task) /\ Len(versions') \in Nat
      /\ Len(versions) \in Nat /\ Len(versions) >= 1 /\ Len(versions') >= Len(versions)
      /\ Grow!TasksKept'
  BY <1>2, VersionsGrow
<1>4. GrowTypes' /\ IdeasServed' /\ PushInv'
  BY <1>1, <1>3 DEF GrowInv, GrowTypes, IdeasServed, PushInv, RepoHeld, IssuesBound, Recording
<1>5. \A i \in Inc : RowGood(i)' /\ Planned(i)'
  <2>1. \A i \in Inc : RowGood(i) /\ Planned(i)
    BY DEF GrowInv
  <2> QED
    BY <1>1, <1>3, <2>1 DEF RowGood, Planned
<1> QED
  BY <1>3, <1>4, <1>5 DEF GrowInv

-----------------------------------------------------------------------------
(* The push of an increment.                                               *)

\* Finite sets: who records a task, before and after one job moves.
LEMMA RecordingMoves ==
    ASSUME Grow!IncrementsAssumption, GrowTypes, NEW i \in Inc, DOMAIN pushes' = Inc,
           \A j \in Inc : j # i => pushes'[j] = pushes[j], NEW t \in Grow!Task
    PROVE  /\ Cardinality(Recording(t)) \in Nat /\ Cardinality(Recording(t))' \in Nat
           /\ (pushes[i].pc = t <=> pushes'[i].pc = t)
                 => Cardinality(Recording(t))' = Cardinality(Recording(t))
           /\ pushes[i].pc # t /\ pushes'[i].pc = t
                 => Cardinality(Recording(t))' = Cardinality(Recording(t)) + 1
           /\ pushes[i].pc = t /\ pushes'[i].pc # t
                 => Cardinality(Recording(t))' = Cardinality(Recording(t)) - 1
<1> DEFINE before == Recording(t)
           after == {j \in Inc : pushes'[j].pc = t}
<1>1. IsFiniteSet(Inc)
  <2>1. Grow!IsFiniteSet(Inc) = IsFiniteSet(Inc)
    BY DEF Grow!IsFiniteSet, IsFiniteSet
  <2> QED
    BY <2>1 DEF Grow!IncrementsAssumption
<1>2. IsFiniteSet(before) /\ IsFiniteSet(after)
  BY <1>1, FS_Subset DEF Recording
<1>3. Cardinality(before) \in Nat /\ Cardinality(after) \in Nat
  BY <1>2, FS_CardinalityType
<1>4. Recording(t)' = after
  BY DEF Recording
<1>5. (pushes[i].pc = t <=> pushes'[i].pc = t) => after = before
  BY DEF Recording
<1>6. ASSUME pushes[i].pc # t, pushes'[i].pc = t
      PROVE  Cardinality(after) = Cardinality(before) + 1
  <2>1. after = before \cup {i} /\ i \notin before
    BY <1>6 DEF Recording
  <2>2. Cardinality(before \cup {i}) = Cardinality(before) + 1
    BY <1>2, <2>1, FS_AddElement
  <2> QED
    BY <2>1, <2>2
<1>7. ASSUME pushes[i].pc = t, pushes'[i].pc # t
      PROVE  Cardinality(after) = Cardinality(before) - 1
  <2>1. after = before \ {i} /\ i \in before
    BY <1>7 DEF Recording
  <2>2. Cardinality(before \ {i}) = Cardinality(before) - 1
    BY <1>2, <2>1, FS_RemoveElement
  <2> QED
    BY <2>1, <2>2
<1> QED
  BY <1>3, <1>4, <1>5, <1>6, <1>7

\* What the steps of a push share: one job moves, and its row at most becomes pushed.
LEMMA PushMoves ==
    ASSUME GrowInv, NEW i \in Inc, UNCHANGED <<versions, req, idea, sweeping, outcome>>,
           DOMAIN inc' = Inc, DOMAIN inc'[i] = {"status", "paid", "seq"},
           \A j \in Inc : j # i => inc'[j] = inc[j] /\ pushes'[j] = pushes[j],
           \/ inc' = inc
           \/ outcome[i] # "none" /\ inc'[i].status = "pushed" /\ inc'[i].paid = inc[i].paid,
           pushes' \in [Inc -> [pc : Places, version : Nat]],
           pushes'[i].pc # "none" => outcome[i] # "none",
           taskRows' \in [Grow!Task -> {"none", "baseline"} \cup Inc],
           opened' \in [Grow!Task -> Int], orphans' \in Nat,
           RepoHeld', IssuesBound'
    PROVE  GrowInv'
<1>1. \A j \in Inc : RowGood(j) /\ Planned(j)
  BY DEF GrowInv
<1>2. GrowTypes'
  <2>1. \A j \in Inc : DOMAIN inc'[j] = {"status", "paid", "seq"}
    BY DEF GrowInv, GrowTypes
  <2>2. /\ versions' \in Seq(SUBSET Grow!Task) /\ Len(versions') >= 1
        /\ DOMAIN req' = Inc /\ \A j \in Inc : DOMAIN req'[j] = {"pc", "version", "seq"}
        /\ idea' \in [Grow!Ideas -> Inc \cup {"open"}]
        /\ outcome' \in [Inc -> {"none", "appended", "overwritten"}] /\ sweeping' \subseteq Inc
    BY DEF GrowInv, GrowTypes
  <2> QED
    BY <2>1, <2>2 DEF GrowTypes
<1>3. outcome \in [Inc -> {"none", "appended", "overwritten"}]
  BY DEF GrowInv, GrowTypes
<1>4. ASSUME NEW j \in Inc PROVE RowGood(j)' /\ Planned(j)'
  <2>1. RowGood(j) /\ Planned(j)
    BY <1>1
  <2>2. CASE j # i \/ inc' = inc
    BY <2>1, <2>2 DEF RowGood, Planned
  <2>3. CASE j = i /\ outcome[i] # "none" /\ inc'[i].status = "pushed"
             /\ inc'[i].paid = inc[i].paid
    BY <1>3, <2>1, <2>3 DEF RowGood, Planned, Serving
  <2> QED
    BY <2>2, <2>3
<1>5. IdeasServed'
  BY DEF GrowInv, GrowTypes, IdeasServed
<1>6. Grow!TasksKept'
  BY DEF GrowInv, Grow!TasksKept, Grow!Current
<1> QED
  BY <1>2, <1>4, <1>5, <1>6 DEF GrowInv, PushInv

LEMMA PushKeeps ==
    ASSUME GrowInv, Grow!IncrementsAssumption, NEW i \in Inc, Grow!Push(i)
    PROVE  GrowInv'
<1> DEFINE at == pushes[i].pc
           at_ == pushes'[i].pc
<1>1. /\ DOMAIN inc = Inc /\ DOMAIN inc[i] = {"status", "paid", "seq"}
      /\ pushes \in [Inc -> [pc : Places, version : Nat]]
      /\ taskRows \in [Grow!Task -> {"none", "baseline"} \cup Inc]
      /\ opened \in [Grow!Task -> Int] /\ orphans \in Nat
      /\ versions \in Seq(SUBSET Grow!Task) /\ Len(versions) \in Nat
      /\ RowGood(i) /\ GrowTypes /\ RepoHeld /\ IssuesBound
  BY DEF GrowInv, GrowTypes, PushInv
<1>2. /\ "free" \notin Inc /\ "none" \notin Inc
      /\ Grow!Task \cap {"none", "queued", "wait", "sync", "finish"} = {}
  BY DEF Grow!IncrementsAssumption
<1>3. ASSUME UNCHANGED <<taskRows, opened, orphans>>, DOMAIN pushes' = Inc,
             \A j \in Inc : j # i => pushes'[j] = pushes[j],
             at \notin Grow!Task, at_ \notin Grow!Task
      PROVE  IssuesBound'
  <2>1. \A t \in Grow!Task : Recording(t)' = Recording(t)
    BY <1>3 DEF Recording
  <2> QED
    BY <1>1, <1>3, <2>1 DEF IssuesBound
<1>4. CASE Grow!PushIncrement(i) \/ Grow!StartPush(i)
  <2>1. /\ UNCHANGED <<versions, req, idea, sweeping, outcome, inc, taskRows, opened, repo, orphans>>
        /\ DOMAIN pushes' = Inc /\ \A j \in Inc : j # i => pushes'[j] = pushes[j]
        /\ at \in {"none", "queued"} /\ at_ \in {"none", "queued", "wait"}
        /\ at = "none" => outcome[i] # "none"
        /\ pushes'[i] \in [pc : Places, version : Nat]
    <3>1. CASE Grow!PushIncrement(i)
      BY <1>1, <3>1 DEF Grow!PushIncrement, RowGood, Serving, Places, Grow!sweepVars
    <3>2. CASE Grow!StartPush(i)
      BY <1>1, <3>2 DEF Grow!StartPush, Grow!sweepVars, Grow!NoJob, Grow!Current, Places
    <3> QED
      BY <1>4, <3>1, <3>2
  <2>2. pushes' \in [Inc -> [pc : Places, version : Nat]]
    BY <1>1, <1>4, <2>1 DEF Grow!PushIncrement, Grow!StartPush, Grow!NoJob
  <2>3. RepoHeld' /\ IssuesBound'
    BY <1>1, <1>2, <1>3, <2>1 DEF RepoHeld
  <2>4. at_ # "none" => outcome[i] # "none"
    BY <1>1, <2>1 DEF RowGood
  <2> QED
    BY <1>1, <2>1, <2>2, <2>3, <2>4, PushMoves
<1>5. CASE Grow!LockRepo(i)
  <2>1. /\ UNCHANGED <<versions, req, idea, sweeping, outcome, inc, taskRows, opened, orphans>>
        /\ \A j \in Inc : j # i => pushes'[j] = pushes[j]
        /\ at = "wait" /\ at_ = "sync" /\ repo = "free" /\ repo' = i
        /\ pushes' \in [Inc -> [pc : Places, version : Nat]]
    BY <1>1, <1>5 DEF Grow!LockRepo, Grow!sweepVars, Places
  <2>2. RepoHeld' /\ IssuesBound'
    BY <1>1, <1>2, <1>3, <2>1 DEF RepoHeld
  <2>3. outcome[i] # "none"
    BY <1>1, <2>1 DEF RowGood
  <2> QED
    BY <1>1, <2>1, <2>2, <2>3, PushMoves
<1>6. CASE \E t \in Grow!Task : Grow!OpenIssue(i, t)
  <2>1. PICK t \in Grow!Task : Grow!OpenIssue(i, t)
    BY <1>6
  <2>2. /\ UNCHANGED <<versions, req, idea, sweeping, outcome, inc, taskRows, repo, orphans>>
        /\ \A j \in Inc : j # i => pushes'[j] = pushes[j]
        /\ at = "sync" /\ at_ = t /\ taskRows[t] = "none"
        /\ opened' = [opened EXCEPT ![t] = @ + 1]
        /\ pushes' \in [Inc -> [pc : Places, version : Nat]]
    BY <1>1, <2>1 DEF Grow!OpenIssue, Grow!sweepVars, Grow!Missing, Places
  <2>3. RepoHeld'
    BY <1>1, <1>2, <2>2 DEF RepoHeld
  <2>4. ASSUME NEW u \in Grow!Task
        PROVE  opened'[u] <= orphans + (IF taskRows[u] = "none" THEN 0 ELSE 1)
                             + Cardinality(Recording(u))'
    <3>1. /\ Cardinality(Recording(u)) \in Nat
          /\ u # t => Cardinality(Recording(u))' = Cardinality(Recording(u))
          /\ u = t => Cardinality(Recording(u))' = Cardinality(Recording(u)) + 1
      BY <1>1, <1>2, <2>2, RecordingMoves
    <3>2. opened[u] <= orphans + (IF taskRows[u] = "none" THEN 0 ELSE 1)
                       + Cardinality(Recording(u))
      BY <1>1 DEF IssuesBound
    <3> QED
      BY <1>1, <2>2, <3>1, <3>2
  <2>5. IssuesBound'
    BY <2>2, <2>4 DEF IssuesBound
  <2>6. outcome[i] # "none" /\ opened' \in [Grow!Task -> Int]
    BY <1>1, <2>2 DEF RowGood
  <2> QED
    BY <1>1, <2>2, <2>3, <2>5, <2>6, PushMoves
<1>7. CASE Grow!RecordIssue(i)
  <2> DEFINE t == pushes[i].pc
  <2>1. /\ UNCHANGED <<versions, req, idea, sweeping, outcome, inc, opened, repo, orphans>>
        /\ \A j \in Inc : j # i => pushes'[j] = pushes[j]
        /\ t \in Grow!Task /\ at_ = "sync" /\ taskRows' = [taskRows EXCEPT ![t] = i]
        /\ pushes' \in [Inc -> [pc : Places, version : Nat]]
    BY <1>1, <1>7 DEF Grow!RecordIssue, Grow!sweepVars, Places
  <2>2. repo = i /\ taskRows[t] = "none"
    BY <1>1, <2>1 DEF RepoHeld
  <2>3. RepoHeld'
    <3>1. \A j \in Inc : j # i => pushes[j].pc \notin {"sync"} \cup Grow!Task
      BY <1>1, <2>2 DEF RepoHeld
    <3> QED
      BY <1>2, <2>1, <2>2, <3>1 DEF RepoHeld
  <2>4. ASSUME NEW u \in Grow!Task
        PROVE  opened[u] <= orphans + (IF taskRows'[u] = "none" THEN 0 ELSE 1)
                            + Cardinality(Recording(u))'
    <3>1. /\ Cardinality(Recording(u)) \in Nat
          /\ u # t => Cardinality(Recording(u))' = Cardinality(Recording(u))
          /\ u = t => Cardinality(Recording(u))' = Cardinality(Recording(u)) - 1
      BY <1>1, <1>2, <2>1, RecordingMoves
    <3>2. opened[u] <= orphans + (IF taskRows[u] = "none" THEN 0 ELSE 1)
                       + Cardinality(Recording(u))
      BY <1>1 DEF IssuesBound
    <3>3. /\ u # t => taskRows'[u] = taskRows[u]
          /\ u = t => taskRows'[u] # "none"
      BY <1>1, <1>2, <2>1
    <3> QED
      BY <1>1, <2>2, <3>1, <3>2, <3>3
  <2>5. IssuesBound'
    BY <2>1, <2>4 DEF IssuesBound
  <2>6. /\ outcome[i] # "none"
        /\ taskRows' \in [Grow!Task -> {"none", "baseline"} \cup Inc]
    BY <1>1, <1>2, <2>1 DEF RowGood
  <2> QED
    BY <1>1, <2>1, <2>3, <2>5, <2>6, PushMoves
<1>8. CASE Grow!Retire(i)
  <2> DEFINE gone == {t \in Grow!Task \ versions[pushes[i].version] : taskRows[t] # "none"}
  <2>1. /\ UNCHANGED <<versions, req, idea, sweeping, outcome, inc, orphans>>
        /\ \A j \in Inc : j # i => pushes'[j] = pushes[j]
        /\ at = "sync" /\ at_ = "finish" /\ repo' = "free"
        /\ opened' = [t \in Grow!Task |-> IF t \in gone THEN opened[t] - 1 ELSE opened[t]]
        /\ taskRows' = [t \in Grow!Task |-> IF t \in gone THEN "none" ELSE taskRows[t]]
        /\ pushes' \in [Inc -> [pc : Places, version : Nat]]
    BY <1>1, <1>8 DEF Grow!Retire, Grow!sweepVars, Places
  <2>2. \A j \in Inc : j # i => pushes[j].pc \notin {"sync"} \cup Grow!Task
    BY <1>1, <2>1 DEF RepoHeld
  <2>3. RepoHeld'
    BY <1>2, <2>1, <2>2 DEF RepoHeld
  <2>4. ASSUME NEW u \in Grow!Task
        PROVE  opened'[u] <= orphans + (IF taskRows'[u] = "none" THEN 0 ELSE 1)
                             + Cardinality(Recording(u))'
    <3>1. /\ Cardinality(Recording(u)) \in Nat
          /\ Cardinality(Recording(u))' = Cardinality(Recording(u))
      BY <1>1, <1>2, <2>1, RecordingMoves
    <3>2. opened[u] <= orphans + (IF taskRows[u] = "none" THEN 0 ELSE 1)
                       + Cardinality(Recording(u))
      BY <1>1 DEF IssuesBound
    <3>3. CASE u \in gone
      BY <1>1, <2>1, <3>1, <3>2, <3>3
    <3>4. CASE u \notin gone
      BY <1>1, <2>1, <3>1, <3>2, <3>4
    <3> QED
      BY <3>3, <3>4
  <2>5. IssuesBound'
    BY <2>1, <2>4 DEF IssuesBound
  <2>6. /\ outcome[i] # "none" /\ opened' \in [Grow!Task -> Int]
        /\ taskRows' \in [Grow!Task -> {"none", "baseline"} \cup Inc]
    BY <1>1, <2>1 DEF RowGood
  <2> QED
    BY <1>1, <2>1, <2>3, <2>5, <2>6, PushMoves
<1>9. CASE Grow!FinishPush(i)
  <2>1. /\ UNCHANGED <<versions, req, idea, sweeping, outcome, taskRows, opened, repo, orphans>>
        /\ DOMAIN inc' = Inc /\ DOMAIN inc'[i] = {"status", "paid", "seq"}
        /\ \A j \in Inc : j # i => inc'[j] = inc[j] /\ pushes'[j] = pushes[j]
        /\ inc'[i].status = "pushed" /\ inc'[i].paid = inc[i].paid
        /\ at = "finish" /\ at_ = "none"
        /\ pushes' \in [Inc -> [pc : Places, version : Nat]]
    BY <1>1, <1>9 DEF Grow!FinishPush, Grow!sweepVars, Grow!NoJob, Places
  <2>2. RepoHeld' /\ IssuesBound'
    BY <1>1, <1>2, <1>3, <2>1 DEF RepoHeld
  <2>3. outcome[i] # "none"
    BY <1>1, <2>1 DEF RowGood
  <2> QED
    BY <1>1, <2>1, <2>2, <2>3, PushMoves
<1>10. CASE Grow!PushBreaks(i)
  <2>1. /\ UNCHANGED <<versions, req, idea, sweeping, outcome, inc, taskRows, opened>>
        /\ \A j \in Inc : j # i => pushes'[j] = pushes[j]
        /\ at # "none" /\ at_ = "queued"
        /\ repo' = IF repo = i THEN "free" ELSE repo
        /\ orphans' = IF at \in Grow!Task THEN orphans + 1 ELSE orphans
        /\ pushes' \in [Inc -> [pc : Places, version : Nat]]
    BY <1>1, <1>2, <1>10 DEF Grow!PushBreaks, Grow!sweepVars, Places
  <2>2. RepoHeld'
    <3> SUFFICES ASSUME NEW j \in Inc
                 PROVE  /\ pushes'[j].pc \in {"sync"} \cup Grow!Task => repo' = j
                        /\ pushes'[j].pc \in Grow!Task => taskRows'[pushes'[j].pc] = "none"
      BY DEF RepoHeld
    <3>1. CASE j = i
      BY <1>2, <2>1, <3>1
    <3>2. CASE j # i
      BY <1>1, <2>1, <3>2 DEF RepoHeld
    <3> QED
      BY <3>1, <3>2
  <2>3. ASSUME NEW u \in Grow!Task
        PROVE  opened[u] <= orphans' + (IF taskRows[u] = "none" THEN 0 ELSE 1)
                            + Cardinality(Recording(u))'
    <3>1. /\ Cardinality(Recording(u)) \in Nat
          /\ u # at => Cardinality(Recording(u))' = Cardinality(Recording(u))
          /\ u = at => Cardinality(Recording(u))' = Cardinality(Recording(u)) - 1
      BY <1>1, <1>2, <2>1, RecordingMoves
    <3>2. opened[u] <= orphans + (IF taskRows[u] = "none" THEN 0 ELSE 1)
                       + Cardinality(Recording(u))
      BY <1>1 DEF IssuesBound
    <3> QED
      BY <1>1, <2>1, <3>1, <3>2
  <2>4. IssuesBound'
    BY <2>1, <2>3 DEF IssuesBound
  <2>5. outcome[i] # "none" /\ orphans' \in Nat
    BY <1>1, <2>1 DEF RowGood
  <2> QED
    BY <1>1, <2>1, <2>2, <2>4, <2>5, PushMoves
<1> QED
  BY <1>4, <1>5, <1>6, <1>7, <1>8, <1>9, <1>10 DEF Grow!Push

LEMMA GrowStep ==
    ASSUME Grow!IncrementsAssumption
    PROVE  GrowInv /\ [Grow!Next]_(Grow!vars) => GrowInv'
<1> SUFFICES ASSUME GrowInv, [Grow!Next]_(Grow!vars) PROVE GrowInv'
  OBVIOUS
<1>1. CASE \E i \in Inc : Grow!Request(i)
  BY <1>1, RequestKeeps
<1>2. CASE \E i \in Inc : Grow!Push(i)
  BY <1>2, PushKeeps
<1>3. CASE Grow!EditTasks \/ Grow!Unlock \/ Grow!Finalise
  BY <1>3, StageKeeps
<1>4. CASE Grow!RecoverRead \/ Grow!RecoverWrite \/ Grow!RecoverFails
  BY <1>4, RecoveryKeeps
<1>5. CASE UNCHANGED Grow!vars
  <2>1. UNCHANGED <<versions, inc, req, idea, pushes, taskRows, opened, repo, sweeping, outcome, orphans>>
    BY <1>5 DEF Grow!vars
  <2> QED
    BY <2>1 DEF GrowInv, GrowTypes, RowGood, Planned, IdeasServed, Grow!TasksKept, Grow!Current,
                PushInv, RepoHeld, IssuesBound, Recording
<1> QED
  BY <1>1, <1>2, <1>3, <1>4, <1>5 DEF Grow!Next

LEMMA GrowAlways ==
    ASSUME Grow!IncrementsAssumption
    PROVE  Grow!Spec => []GrowInv
BY GrowStarts, GrowStep, PTL DEF Grow!Spec

\* A row that generates or serves has paid, one that was reset was refunded and
\* appended nothing, and an idea is planned only in an increment that serves,
\* whichever of the request and the recovery sweep was first; but for the rows a
\* sweep reads while they generate and overwrites when they are ready, which it
\* does without a lock (_finalise_increment, recover_stuck_increments).
THEOREM IncrementsCharged ==
    ASSUME Grow!IncrementsAssumption
    PROVE  Grow!Spec => []Grow!ChargedIffServed
<1>1. GrowInv => Grow!ChargedIffServed
  <2> SUFFICES ASSUME GrowInv PROVE Grow!ChargedIffServed
    OBVIOUS
  <2>1. \A i \in Inc : RowGood(i) /\ outcome[i] \in {"none", "appended", "overwritten"}
    BY DEF GrowInv, GrowTypes
  <2>2. \A d \in Grow!Ideas : idea[d] # "open" => idea[d] \in Inc /\ outcome[idea[d]] # "none"
    BY DEF GrowInv, GrowTypes, IdeasServed
  <2> QED
    BY <2>1, <2>2 DEF RowGood, Serving, Grow!ChargedIffServed
<1> QED
  BY <1>1, GrowAlways, PTL

\* Side by side, decks and increments are charged exactly if they serve, as long as
\* no deck outlives the sweep's threshold and no sweep overwrites an increment.
THEOREM ServicesCharged ==
    ASSUME ~ Slow, Grow!IncrementsAssumption
    PROVE  Boards!Spec /\ Grow!Spec => []ChargedIffServed
<1>1. Boards!ChargedIffServed /\ Grow!ChargedIffServed => ChargedIffServed
  BY DEF ChargedIffServed
<1> QED
  BY <1>1, DecksCharged, IncrementsCharged, PTL

\* Appending an increment never loses a task of the version before it, though the
\* request computed the new text from a version it read before the provider call:
\* the number it writes is free only if that version is still the last.
THEOREM AppendedTasksKept ==
    ASSUME Grow!IncrementsAssumption
    PROVE  Grow!Spec => []TasksKept
<1>1. GrowInv => TasksKept
  BY DEF GrowInv, TasksKept
<1> QED
  BY <1>1, GrowAlways, PTL

\* Two pushes of one workspace do not open two issues for a task: beyond its row,
\* the one being recorded and the ones a stop between the two left, there is none.
THEOREM IncrementIssuesOnce ==
    ASSUME Grow!IncrementsAssumption
    PROVE  Grow!Spec => []Grow!IssuesRecorded
<1>1. ASSUME NEW t \in Grow!Task
      PROVE  Grow!Cardinality({i \in Inc : pushes[i].pc = t}) = Cardinality(Recording(t))
  BY DEF Grow!Cardinality, Cardinality, Grow!IsFiniteSet, IsFiniteSet, Recording
<1>2. GrowInv => Grow!IssuesRecorded
  BY <1>1 DEF GrowInv, PushInv, IssuesBound, Grow!IssuesRecorded
<1> QED
  BY <1>2, GrowAlways, PTL

-----------------------------------------------------------------------------
(* Admission control.                                                      *)

AdmitTypes ==
    /\ DOMAIN inflight = {"api", "worker"}
    /\ inflight["api"] \in Int /\ inflight["worker"] \in Int
    /\ userLease \subseteq Requests /\ provLease \subseteq Requests
    /\ request \in [Requests -> [at : Admit!ApiAt, user : BOOLEAN, prov : BOOLEAN]]
    /\ queued \in [Requests -> [at : Admit!JobAt, user : BOOLEAN, prov : BOOLEAN]]
    /\ outages \in Nat /\ crashes \in Nat /\ cancels \in Nat

LeasesOf(u) == {q \in userLease : Owner[q] = u}

\* The scripts that add a lease count the leases that are there.
Budgets ==
    /\ \A u : Cardinality(LeasesOf(u)) <= UserLimit
    /\ Cardinality(provLease) <= ProviderLimit

\* A request that is new has no lease, and one that is being handled no job yet.
Handed(r) ==
    /\ request[r].at = "new" => ~ request[r].user /\ ~ request[r].prov
    /\ request[r].at # "over" => queued[r].at = "none"

\* A job that is past a lease it took from its payload holds it.
Backed(r) ==
    /\ queued[r].at \in {"prov", "running"} /\ queued[r].user => r \in userLease
    /\ queued[r].at = "running" /\ queued[r].prov => r \in provLease

\* The admission that lives, the request's or its job's, says which leases it has.
Told(r) ==
    /\ r \in userLease => \/ request[r].at # "over" /\ request[r].user
                          \/ queued[r].at # "none" /\ queued[r].user
    /\ r \in provLease => \/ request[r].at # "over" /\ request[r].prov
                          \/ queued[r].at # "none" /\ queued[r].prov

InApi(r) == request[r].at \notin {"new", "over"}
InWorker(r) == queued[r].at \notin {"none", "queued"}
ApiSlots == {r \in Requests : InApi(r)}
WorkerSlots == {r \in Requests : InWorker(r)}

Slots ==
    cancels = 0 => /\ inflight["api"] = Cardinality(ApiSlots)
                   /\ inflight["worker"] = Cardinality(WorkerSlots)

\* Redis has answered, nothing crashed, nobody cancelled a request that waits.
Undisturbed == outages = 0 /\ crashes = 0 /\ cancels = 0

AdmitInv ==
    /\ AdmitTypes /\ Budgets /\ Slots
    /\ \A r \in Requests : /\ Handed(r)
                           /\ outages = 0 => Backed(r)
                           /\ Undisturbed => Told(r)

LEMMA AdmissionStarts ==
    ASSUME Admit!AdmissionAssumption
    PROVE  Admit!Init => AdmitInv
<1> SUFFICES ASSUME Admit!Init PROVE AdmitInv
  OBVIOUS
<1>1. AdmitTypes
  BY DEF Admit!Init, AdmitTypes, Admit!Adm, Admit!ApiAt, Admit!JobAt
<1>2. Budgets
  <2>1. \A u : LeasesOf(u) = {}
    BY DEF Admit!Init, LeasesOf
  <2> QED
    BY <2>1, FS_EmptySet DEF Admit!Init, Admit!AdmissionAssumption, Budgets
<1>3. Slots
  <2>1. ApiSlots = {} /\ WorkerSlots = {}
    BY DEF Admit!Init, Admit!Adm, ApiSlots, WorkerSlots, InApi, InWorker
  <2> QED
    BY <2>1, FS_EmptySet DEF Admit!Init, Slots
<1>4. \A r \in Requests : Handed(r) /\ Backed(r) /\ Told(r)
  BY DEF Admit!Init, Admit!Adm, Handed, Backed, Told
<1> QED
  BY <1>1, <1>2, <1>3, <1>4 DEF AdmitInv

\* A finite set of which at most one member comes or goes.
LEMMA CountMoves ==
    ASSUME NEW S, NEW T, NEW r, IsFiniteSet(S), S \ {r} = T \ {r}
    PROVE  /\ IsFiniteSet(T) /\ Cardinality(S) \in Nat /\ Cardinality(T) \in Nat
           /\ (r \in S <=> r \in T) => Cardinality(T) = Cardinality(S)
           /\ r \in T /\ r \notin S => Cardinality(T) = Cardinality(S) + 1
           /\ r \in S /\ r \notin T => Cardinality(T) = Cardinality(S) - 1
<1>1. CASE r \in S <=> r \in T
  <2>1. T = S
    BY <1>1
  <2> QED
    BY <1>1, <2>1, FS_CardinalityType
<1>2. CASE r \in T /\ r \notin S
  <2>1. T = S \cup {r}
    BY <1>2
  <2> QED
    BY <1>2, <2>1, FS_AddElement, FS_CardinalityType
<1>3. CASE r \in S /\ r \notin T
  <2>1. T = S \ {r}
    BY <1>3
  <2> QED
    BY <1>3, <2>1, FS_RemoveElement, FS_CardinalityType
<1> QED
  BY <1>1, <1>2, <1>3

LEMMA AdmitFinite ==
    ASSUME AdmitInv, Admit!AdmissionAssumption
    PROVE  /\ IsFiniteSet(Requests) /\ UserLimit \in Nat /\ ProviderLimit \in Nat
           /\ IsFiniteSet(userLease) /\ IsFiniteSet(provLease)
           /\ \A u : IsFiniteSet(LeasesOf(u)) /\ Cardinality(LeasesOf(u)) \in Nat
           /\ IsFiniteSet(ApiSlots) /\ IsFiniteSet(WorkerSlots)
           /\ Cardinality(ApiSlots) \in Nat /\ Cardinality(WorkerSlots) \in Nat
           /\ \A S : Admit!Cardinality(S) = Cardinality(S)
<1>1. IsFiniteSet(Requests) /\ UserLimit \in Nat /\ ProviderLimit \in Nat
  <2>1. Admit!IsFiniteSet(Requests) = IsFiniteSet(Requests)
    BY DEF Admit!IsFiniteSet, IsFiniteSet
  <2> QED
    BY <2>1 DEF Admit!AdmissionAssumption
<1>2. userLease \subseteq Requests /\ provLease \subseteq Requests
  BY DEF AdmitInv, AdmitTypes
<1>3. IsFiniteSet(userLease) /\ IsFiniteSet(provLease)
  BY <1>1, <1>2, FS_Subset
<1>4. ASSUME NEW u PROVE IsFiniteSet(LeasesOf(u)) /\ Cardinality(LeasesOf(u)) \in Nat
  BY <1>3, FS_Subset, FS_CardinalityType DEF LeasesOf
<1>5. IsFiniteSet(ApiSlots) /\ IsFiniteSet(WorkerSlots)
  BY <1>1, FS_Subset DEF ApiSlots, WorkerSlots
<1>6. Cardinality(ApiSlots) \in Nat /\ Cardinality(WorkerSlots) \in Nat
  BY <1>5, FS_CardinalityType
<1>7. ASSUME NEW S PROVE Admit!Cardinality(S) = Cardinality(S)
  BY DEF Admit!Cardinality, Cardinality, Admit!IsFiniteSet, IsFiniteSet
<1> QED
  BY <1>1, <1>3, <1>4, <1>5, <1>6, <1>7

\* A slot that is held was counted: giving it back takes one.
LEMMA SlotCounted ==
    ASSUME AdmitInv, Admit!AdmissionAssumption, cancels = 0, NEW r \in Requests
    PROVE  /\ InApi(r) => inflight["api"] > 0
           /\ InWorker(r) => inflight["worker"] > 0
<1>1. /\ inflight["api"] = Cardinality(ApiSlots)
      /\ inflight["worker"] = Cardinality(WorkerSlots)
  BY DEF AdmitInv, Slots
<1>2. ASSUME InApi(r) PROVE inflight["api"] > 0
  <2>1. r \in ApiSlots
    BY <1>2 DEF ApiSlots
  <2>2. Cardinality(ApiSlots) # 0
    BY <2>1, AdmitFinite, FS_EmptySet
  <2> QED
    BY <1>1, <2>2, AdmitFinite
<1>3. ASSUME InWorker(r) PROVE inflight["worker"] > 0
  <2>1. r \in WorkerSlots
    BY <1>3 DEF WorkerSlots
  <2>2. Cardinality(WorkerSlots) # 0
    BY <2>1, AdmitFinite, FS_EmptySet
  <2> QED
    BY <1>1, <2>2, AdmitFinite
<1> QED
  BY <1>2, <1>3

ApiSlot(r) == IF InApi(r) THEN 1 ELSE 0
WorkerSlot(r) == IF InWorker(r) THEN 1 ELSE 0

\* A step of one admission: its request, its job, its leases and its slot.
LEMMA AdmissionMoves ==
    ASSUME AdmitInv, Admit!AdmissionAssumption, NEW r \in Requests, AdmitTypes',
           \A q \in Requests : q # r => request'[q] = request[q] /\ queued'[q] = queued[q],
           userLease' \ {r} = userLease \ {r}, provLease' \ {r} = provLease \ {r},
           r \in userLease' => r \in userLease \/ Cardinality(LeasesOf(Owner[r])) < UserLimit,
           r \in provLease' => r \in provLease \/ Cardinality(provLease) < ProviderLimit,
           outages' >= outages, crashes' >= crashes, cancels' >= cancels,
           Handed(r)', outages' = 0 => Backed(r)', Undisturbed' => Told(r)',
           cancels' = 0 => /\ inflight'["api"] = inflight["api"] + ApiSlot(r)' - ApiSlot(r)
                           /\ inflight'["worker"] = inflight["worker"] + WorkerSlot(r)' - WorkerSlot(r)
    PROVE  AdmitInv'
<1>1. /\ outages \in Nat /\ crashes \in Nat /\ cancels \in Nat
      /\ outages' \in Nat /\ crashes' \in Nat /\ cancels' \in Nat
  BY DEF AdmitInv, AdmitTypes
<1>0. /\ outages' = 0 => outages = 0
      /\ Undisturbed' => Undisturbed
  BY <1>1 DEF Undisturbed
<1>2. Budgets'
  <2>1. ASSUME NEW u PROVE Cardinality(LeasesOf(u))' <= UserLimit
    <3> DEFINE before == LeasesOf(u)
               after == {q \in userLease' : Owner[q] = u}
    <3>1. /\ before \ {r} = after \ {r}
          /\ r \in after /\ r \notin before => Cardinality(before) < UserLimit
      BY DEF LeasesOf
    <3>2. /\ Cardinality(before) \in Nat /\ Cardinality(after) \in Nat
          /\ (r \in before <=> r \in after) => Cardinality(after) = Cardinality(before)
          /\ r \in after /\ r \notin before => Cardinality(after) = Cardinality(before) + 1
          /\ r \in before /\ r \notin after => Cardinality(after) = Cardinality(before) - 1
      <4>1. IsFiniteSet(before)
        BY AdmitFinite
      <4> HIDE DEF before, after
      <4> QED
        BY <3>1, <4>1, CountMoves
    <3>3. Cardinality(before) <= UserLimit
      BY DEF AdmitInv, Budgets
    <3>4. UserLimit \in Nat
      BY AdmitFinite
    <3>5. Cardinality(after) <= UserLimit
      <4> HIDE DEF before, after
      <4> QED
        BY <3>1, <3>2, <3>3, <3>4
    <3> QED
      BY <3>5 DEF LeasesOf
  <2>2. Cardinality(provLease)' <= ProviderLimit
    <3>1. /\ Cardinality(provLease) \in Nat /\ Cardinality(provLease') \in Nat
          /\ (r \in provLease <=> r \in provLease') => Cardinality(provLease') = Cardinality(provLease)
          /\ r \in provLease' /\ r \notin provLease
                => Cardinality(provLease') = Cardinality(provLease) + 1
          /\ r \in provLease /\ r \notin provLease'
                => Cardinality(provLease') = Cardinality(provLease) - 1
      BY AdmitFinite, CountMoves
    <3>2. Cardinality(provLease) <= ProviderLimit /\ ProviderLimit \in Nat
      BY AdmitFinite DEF AdmitInv, Budgets
    <3> QED
      BY <3>1, <3>2
  <2> QED
    BY <2>1, <2>2 DEF Budgets
<1>3. Slots'
  <2> SUFFICES ASSUME cancels' = 0
               PROVE  /\ inflight'["api"] = Cardinality(ApiSlots)'
                      /\ inflight'["worker"] = Cardinality(WorkerSlots)'
    BY DEF Slots
  <2>1. /\ inflight["api"] = Cardinality(ApiSlots)
        /\ inflight["worker"] = Cardinality(WorkerSlots)
    BY <1>1 DEF AdmitInv, Slots
  <2> DEFINE api == ApiSlots
             api_ == ApiSlots'
             worker == WorkerSlots
             worker_ == WorkerSlots'
  <2>2. /\ api \ {r} = api_ \ {r} /\ worker \ {r} = worker_ \ {r}
        /\ r \in api <=> InApi(r)
        /\ r \in api_ <=> InApi(r)'
        /\ r \in worker <=> InWorker(r)
        /\ r \in worker_ <=> InWorker(r)'
    BY DEF ApiSlots, WorkerSlots, InApi, InWorker
  <2>3. IsFiniteSet(api) /\ IsFiniteSet(worker)
    BY AdmitFinite
  <2>4. Cardinality(api_) = Cardinality(api) + ApiSlot(r)' - ApiSlot(r)
    <3> HIDE DEF api, api_
    <3>1. /\ Cardinality(api) \in Nat
          /\ (r \in api <=> r \in api_) => Cardinality(api_) = Cardinality(api)
          /\ r \in api_ /\ r \notin api => Cardinality(api_) = Cardinality(api) + 1
          /\ r \in api /\ r \notin api_ => Cardinality(api_) = Cardinality(api) - 1
      BY <2>2, <2>3, CountMoves
    <3> QED
      BY <2>2, <3>1 DEF ApiSlot
  <2>5. Cardinality(worker_) = Cardinality(worker) + WorkerSlot(r)' - WorkerSlot(r)
    <3> HIDE DEF worker, worker_
    <3>1. /\ Cardinality(worker) \in Nat
          /\ (r \in worker <=> r \in worker_) => Cardinality(worker_) = Cardinality(worker)
          /\ r \in worker_ /\ r \notin worker => Cardinality(worker_) = Cardinality(worker) + 1
          /\ r \in worker /\ r \notin worker_ => Cardinality(worker_) = Cardinality(worker) - 1
      BY <2>2, <2>3, CountMoves
    <3> QED
      BY <2>2, <3>1 DEF WorkerSlot
  <2> QED
    BY <2>1, <2>4, <2>5
<1>4. ASSUME NEW q \in Requests
      PROVE  /\ Handed(q)' /\ (outages' = 0 => Backed(q)')
             /\ Undisturbed' => Told(q)'
  <2>1. CASE q = r
    BY <2>1
  <2>2. CASE q # r
    <3>1. /\ Handed(q) /\ (outages' = 0 => Backed(q))
          /\ Undisturbed' => Told(q)
      BY <1>0, Zenon DEF AdmitInv
    <3>2. /\ q \in userLease' <=> q \in userLease
          /\ q \in provLease' <=> q \in provLease
      BY <2>2
    <3> QED
      BY <2>2, <3>1, <3>2 DEF Handed, Backed, Told
  <2> QED
    BY <2>1, <2>2
<1> QED
  BY <1>2, <1>3, <1>4 DEF AdmitInv

\* Giving back takes the leases an admission says it has, while Redis answers.
LEMMA Removed ==
    ASSUME AdmitInv, NEW r \in Requests, NEW adm, Admit!RemoveLeases(r, adm)
    PROVE  /\ userLease' \subseteq userLease /\ userLease' \ {r} = userLease \ {r}
           /\ provLease' \subseteq provLease /\ provLease' \ {r} = provLease \ {r}
           /\ outages' \in Nat /\ outages' >= outages
           /\ outages' = 0 => /\ adm.user => r \notin userLease'
                              /\ adm.prov => r \notin provLease'
<1>1. outages \in Nat
  BY DEF AdmitInv, AdmitTypes
<1> QED
  BY <1>1 DEF Admit!RemoveLeases

\* What the steps of a request use of the invariant.
LEMMA AdmitKnown ==
    ASSUME AdmitInv, NEW r \in Requests
    PROVE  /\ AdmitTypes /\ DOMAIN inflight = {"api", "worker"}
           /\ inflight["api"] \in Int /\ inflight["worker"] \in Int
           /\ userLease \subseteq Requests /\ provLease \subseteq Requests
           /\ request \in [Requests -> [at : Admit!ApiAt, user : BOOLEAN, prov : BOOLEAN]]
           /\ queued \in [Requests -> [at : Admit!JobAt, user : BOOLEAN, prov : BOOLEAN]]
           /\ request[r].user \in BOOLEAN /\ request[r].prov \in BOOLEAN
           /\ queued[r].user \in BOOLEAN /\ queued[r].prov \in BOOLEAN
           /\ outages \in Nat /\ crashes \in Nat /\ cancels \in Nat
           /\ Handed(r) /\ (outages = 0 => Backed(r))
           /\ Undisturbed => Told(r)
BY DEF AdmitInv, AdmitTypes

\* No fault so far means none before the step.
LEMMA QuietBefore ==
    ASSUME AdmitInv, outages' \in Nat, crashes' \in Nat, cancels' \in Nat,
           outages' >= outages, crashes' >= crashes, cancels' >= cancels,
           Undisturbed'
    PROVE  /\ outages = 0 /\ crashes = 0 /\ cancels = 0
           /\ outages' = 0 /\ crashes' = 0 /\ cancels' = 0
           /\ \A r \in Requests : Told(r)
<1>1. outages \in Nat /\ crashes \in Nat /\ cancels \in Nat
  BY DEF AdmitInv, AdmitTypes
<1>2. /\ outages = 0 /\ crashes = 0 /\ cancels = 0
      /\ outages' = 0 /\ crashes' = 0 /\ cancels' = 0
  <2>1. outages' = 0 /\ crashes' = 0 /\ cancels' = 0
    BY DEF Undisturbed
  <2> QED
    BY <1>1, <2>1
<1>3. Undisturbed
  BY <1>2 DEF Undisturbed
<1> QED
  BY <1>2, <1>3 DEF AdmitInv

\* The leases of a request or a job, as the scripts count them.
LEMMA Counted ==
    ASSUME AdmitInv, Admit!AdmissionAssumption, NEW r \in Requests
    PROVE  /\ Admit!UserOK(r) => r \in userLease \/ Cardinality(LeasesOf(Owner[r])) < UserLimit
           /\ Admit!ProvOK(r) => r \in provLease \/ Cardinality(provLease) < ProviderLimit
<1>1. /\ Admit!Cardinality(LeasesOf(Owner[r])) = Cardinality(LeasesOf(Owner[r]))
      /\ Admit!Cardinality(provLease) = Cardinality(provLease)
  BY AdmitFinite
<1>2. Admit!Mine(r) = LeasesOf(Owner[r])
  BY DEF Admit!Mine, LeasesOf
<1> QED
  BY <1>1, <1>2 DEF Admit!UserOK, Admit!ProvOK

LEMMA AdmitProcessKeeps ==
    ASSUME AdmitInv, Admit!AdmissionAssumption, NEW r \in Requests, Admit!AdmitProcess(r)
    PROVE  AdmitInv'
<1>1. /\ UNCHANGED <<userLease, provLease, queued, outages, crashes, cancels>>
      /\ \A q \in Requests : q # r => request'[q] = request[q]
      /\ request[r].at = "new" /\ request'[r].at \in {"user", "over"}
      /\ request'[r].user = request[r].user /\ request'[r].prov = request[r].prov
      /\ request' \in [Requests -> [at : Admit!ApiAt, user : BOOLEAN, prov : BOOLEAN]]
  <2>1. /\ request' \in {[request EXCEPT ![r].at = "user"], [request EXCEPT ![r].at = "over"]}
        /\ request[r].at = "new"
    BY DEF Admit!AdmitProcess
  <2>2. UNCHANGED <<userLease, provLease, queued, outages, crashes, cancels>>
    BY DEF Admit!AdmitProcess, Admit!counters
  <2> QED
    BY <2>1, <2>2, AdmitKnown DEF Admit!ApiAt
<1>2. /\ DOMAIN inflight' = {"api", "worker"} /\ inflight'["worker"] = inflight["worker"]
      /\ inflight'["api"] = inflight["api"] + (IF request'[r].at = "user" THEN 1 ELSE 0)
  BY AdmitKnown DEF Admit!AdmitProcess
<1>3. AdmitTypes'
  BY <1>1, <1>2, AdmitKnown DEF AdmitTypes
<1>4. Handed(r)' /\ (outages' = 0 => Backed(r)') /\ (Undisturbed' => Told(r)')
  BY <1>1, AdmitKnown DEF Handed, Backed, Told, Undisturbed
<1>5. /\ inflight'["api"] = inflight["api"] + ApiSlot(r)' - ApiSlot(r)
      /\ inflight'["worker"] = inflight["worker"] + WorkerSlot(r)' - WorkerSlot(r)
  BY <1>1, <1>2, AdmitKnown DEF ApiSlot, WorkerSlot, InApi, InWorker
<1> QED
  BY <1>1, <1>3, <1>4, <1>5, AdmitKnown, AdmissionMoves

\* A lease or a place in the minute, taken or not answered; and the run.
LEMMA AdmitLeaseKeeps ==
    ASSUME AdmitInv, Admit!AdmissionAssumption, NEW r \in Requests,
           \/ Admit!AdmitUser(r) \/ Admit!AdmitProvider(r) \/ Admit!AdmitRpm(r)
           \/ Admit!AdmitFailsOpen(r) \/ Admit!CreateRun(r)
    PROVE  AdmitInv'
<1> DEFINE a == request[r]
           b == request'[r]
<1>1. /\ UNCHANGED <<inflight, queued, crashes, cancels>>
      /\ \A q \in Requests : q # r => request'[q] = request[q]
      /\ a.at \in {"user", "prov", "rpm", "admitted"}
      /\ b.at \in {"prov", "rpm", "admitted", "enqueue"}
      /\ request' \in [Requests -> [at : Admit!ApiAt, user : BOOLEAN, prov : BOOLEAN]]
      /\ outages' \in Nat /\ outages' >= outages
  <2>1. CASE Admit!AdmitUser(r)
    <3>1. /\ request' = [request EXCEPT ![r].at = "prov", ![r].user = TRUE] /\ a.at = "user"
          /\ UNCHANGED <<inflight, queued, outages, crashes, cancels>>
      BY <2>1 DEF Admit!AdmitUser, Admit!counters
    <3>2. /\ b \in [at : Admit!ApiAt, user : BOOLEAN, prov : BOOLEAN]
          /\ request' = [request EXCEPT ![r] = b] /\ b.at = "prov"
      BY <3>1, AdmitKnown DEF Admit!ApiAt
    <3>3. /\ request' \in [Requests -> [at : Admit!ApiAt, user : BOOLEAN, prov : BOOLEAN]]
          /\ \A q \in Requests : q # r => request'[q] = request[q]
      BY <3>2, AdmitKnown
    <3>4. a.at \in {"user", "prov"} /\ b.at \in {"prov", "rpm"}
      BY <3>1, <3>2
    <3> QED
      BY <3>1, <3>3, <3>4, AdmitKnown
  <2>2. CASE Admit!AdmitProvider(r)
    <3>1. /\ request' = [request EXCEPT ![r].at = "rpm", ![r].prov = TRUE] /\ a.at = "prov"
          /\ UNCHANGED <<inflight, queued, outages, crashes, cancels>>
      BY <2>2 DEF Admit!AdmitProvider, Admit!counters
    <3>2. /\ b \in [at : Admit!ApiAt, user : BOOLEAN, prov : BOOLEAN]
          /\ request' = [request EXCEPT ![r] = b] /\ b.at = "rpm"
      BY <3>1, AdmitKnown DEF Admit!ApiAt
    <3>3. /\ request' \in [Requests -> [at : Admit!ApiAt, user : BOOLEAN, prov : BOOLEAN]]
          /\ \A q \in Requests : q # r => request'[q] = request[q]
      BY <3>2, AdmitKnown
    <3>4. a.at \in {"user", "prov"} /\ b.at \in {"prov", "rpm"}
      BY <3>1, <3>2
    <3> QED
      BY <3>1, <3>3, <3>4, AdmitKnown
  <2>3. CASE Admit!AdmitRpm(r)
    BY <2>3, AdmitKnown DEF Admit!AdmitRpm, Admit!counters, Admit!ApiAt
  <2>4. CASE Admit!AdmitFailsOpen(r)
    BY <2>4, AdmitKnown DEF Admit!AdmitFailsOpen, Admit!ApiAt
  <2>5. CASE Admit!CreateRun(r)
    BY <2>5, AdmitKnown DEF Admit!CreateRun, Admit!counters, Admit!ApiAt
  <2> QED
    BY <2>1, <2>2, <2>3, <2>4, <2>5
<1>2. /\ userLease' \in {userLease, userLease \cup {r}}
      /\ provLease' \in {provLease, provLease \cup {r}}
      /\ userLease' = userLease \/ Admit!UserOK(r)
      /\ provLease' = provLease \/ Admit!ProvOK(r)
  BY DEF Admit!AdmitUser, Admit!AdmitProvider, Admit!AdmitRpm, Admit!AdmitFailsOpen,
         Admit!CreateRun
<1>3. /\ userLease' \ {r} = userLease \ {r} /\ provLease' \ {r} = provLease \ {r}
      /\ r \in userLease' => r \in userLease \/ Cardinality(LeasesOf(Owner[r])) < UserLimit
      /\ r \in provLease' => r \in provLease \/ Cardinality(provLease) < ProviderLimit
  BY <1>2, Counted
<1>4. AdmitTypes'
  <2>1. userLease' \subseteq Requests /\ provLease' \subseteq Requests
    BY <1>2, AdmitKnown
  <2> QED
    BY <1>1, <2>1, AdmitKnown DEF AdmitTypes
<1>5. outages' = outages =>
         /\ b.user = (a.user \/ Admit!AdmitUser(r)) /\ b.prov = (a.prov \/ Admit!AdmitProvider(r))
         /\ userLease' = userLease \/ Admit!AdmitUser(r)
         /\ provLease' = provLease \/ Admit!AdmitProvider(r)
  <2>1. CASE Admit!AdmitUser(r)
    BY <2>1, AdmitKnown DEF Admit!AdmitUser, Admit!AdmitProvider
  <2>2. CASE Admit!AdmitProvider(r)
    BY <2>2, AdmitKnown DEF Admit!AdmitUser, Admit!AdmitProvider
  <2>3. CASE Admit!AdmitRpm(r)
    BY <2>3, AdmitKnown DEF Admit!AdmitRpm, Admit!AdmitUser, Admit!AdmitProvider
  <2>4. CASE Admit!AdmitFailsOpen(r)
    BY <2>4, AdmitKnown DEF Admit!AdmitFailsOpen
  <2>5. CASE Admit!CreateRun(r)
    BY <2>5, AdmitKnown DEF Admit!CreateRun, Admit!AdmitUser, Admit!AdmitProvider
  <2> QED
    BY <2>1, <2>2, <2>3, <2>4, <2>5
<1>6. Handed(r)' /\ (outages' = 0 => Backed(r)')
  BY <1>1, <1>2, AdmitKnown DEF Handed, Backed
<1>7. Undisturbed' => Told(r)'
  <2> SUFFICES ASSUME Undisturbed' PROVE Told(r)'
    OBVIOUS
  <2>1. outages' = outages /\ Told(r)
    BY <1>1, AdmitKnown, QuietBefore
  <2>2. queued[r].at = "none" /\ b.at # "over"
    BY <1>1, AdmitKnown DEF Handed
  <2> QED
    BY <1>1, <1>5, <2>1, <2>2 DEF Told
<1>8. /\ inflight'["api"] = inflight["api"] + ApiSlot(r)' - ApiSlot(r)
      /\ inflight'["worker"] = inflight["worker"] + WorkerSlot(r)' - WorkerSlot(r)
  BY <1>1, AdmitKnown DEF ApiSlot, WorkerSlot, InApi, InWorker
<1> QED
  BY <1>1, <1>3, <1>4, <1>6, <1>7, <1>8, AdmitKnown, AdmissionMoves

\* The request ends before its job is queued, or with it: slot and leases are given back.
LEMMA ApiReleaseKeeps ==
    ASSUME AdmitInv, Admit!AdmissionAssumption, NEW r \in Requests,
           \/ Admit!AdmitRejected(r) \/ Admit!CreateFails(r) \/ Admit!EnqueueFails(r)
    PROVE  AdmitInv'
<1> DEFINE a == request[r]
<1>1. /\ UNCHANGED <<crashes, cancels>> /\ a.at \in {"user", "prov", "rpm", "admitted", "enqueue"}
      /\ request' = [request EXCEPT ![r] = Admit!Adm("over")]
      /\ Admit!Release("api", r, a)
      /\ queued' \in {queued, [queued EXCEPT ![r] = [at |-> "queued", user |-> a.user, prov |-> a.prov]]}
  BY DEF Admit!AdmitRejected, Admit!CreateFails, Admit!EnqueueFails, Admit!Rejected
<1>2. /\ userLease' \subseteq userLease /\ userLease' \ {r} = userLease \ {r}
      /\ provLease' \subseteq provLease /\ provLease' \ {r} = provLease \ {r}
      /\ outages' \in Nat /\ outages' >= outages
      /\ outages' = 0 => /\ a.user => r \notin userLease'
                         /\ a.prov => r \notin provLease'
  BY <1>1, Removed DEF Admit!Release
<1>3. /\ \A q \in Requests : q # r => request'[q] = request[q] /\ queued'[q] = queued[q]
      /\ request' \in [Requests -> [at : Admit!ApiAt, user : BOOLEAN, prov : BOOLEAN]]
      /\ queued' \in [Requests -> [at : Admit!JobAt, user : BOOLEAN, prov : BOOLEAN]]
      /\ request'[r].at = "over" /\ queued[r].at = "none" /\ queued'[r].at \in {"none", "queued"}
  BY <1>1, AdmitKnown DEF Admit!Adm, Admit!ApiAt, Admit!JobAt, Handed
<1>4. /\ DOMAIN inflight' = {"api", "worker"} /\ inflight'["worker"] = inflight["worker"]
      /\ inflight'["api"] = IF inflight["api"] > 0 THEN inflight["api"] - 1 ELSE inflight["api"]
  BY <1>1, AdmitKnown DEF Admit!Release
<1>5. AdmitTypes'
  <2>1. userLease' \subseteq Requests /\ provLease' \subseteq Requests
    BY <1>2, AdmitKnown
  <2> QED
    BY <1>1, <1>2, <1>3, <1>4, <2>1, AdmitKnown DEF AdmitTypes
<1>6. Handed(r)' /\ Backed(r)'
  BY <1>3 DEF Handed, Backed
<1>7. Undisturbed' => Told(r)'
  <2> SUFFICES ASSUME Undisturbed' PROVE Told(r)'
    OBVIOUS
  <2>1. outages' = 0 /\ Told(r)
    BY <1>1, <1>2, AdmitKnown, QuietBefore
  <2> QED
    BY <1>2, <1>3, <2>1 DEF Told
<1>8. cancels' = 0 => /\ inflight'["api"] = inflight["api"] + ApiSlot(r)' - ApiSlot(r)
                      /\ inflight'["worker"] = inflight["worker"] + WorkerSlot(r)' - WorkerSlot(r)
  <2>1. InApi(r) /\ ~ InApi(r)' /\ ~ InWorker(r) /\ ~ InWorker(r)'
    BY <1>1, <1>3 DEF InApi, InWorker
  <2>2. cancels' = 0 => inflight["api"] > 0
    BY <1>1, <2>1, SlotCounted
  <2> QED
    BY <1>4, <2>1, <2>2, AdmitKnown DEF ApiSlot, WorkerSlot
<1> QED
  BY <1>1, <1>2, <1>3, <1>5, <1>6, <1>7, <1>8, AdmitKnown, AdmissionMoves

\* The job takes over, or the request is cancelled with what it holds.
LEMMA ApiEndsKeeps ==
    ASSUME AdmitInv, Admit!AdmissionAssumption, NEW r \in Requests,
           Admit!Enqueue(r) \/ Admit!AdmitCancelled(r)
    PROVE  AdmitInv'
<1> DEFINE a == request[r]
<1>1. /\ UNCHANGED <<userLease, provLease, outages, crashes>>
      /\ request' = [request EXCEPT ![r] = Admit!Adm("over")]
      /\ a.at \in {"user", "prov", "rpm", "enqueue"}
      /\ cancels' \in Nat /\ cancels' >= cancels
  BY AdmitKnown DEF Admit!Enqueue, Admit!AdmitCancelled, Admit!counters
<1>2. cancels' = 0 =>
         /\ queued' = [queued EXCEPT ![r] = [at |-> "queued", user |-> a.user, prov |-> a.prov]]
         /\ inflight' = [inflight EXCEPT !["api"] = @ - 1]
  BY AdmitKnown DEF Admit!Enqueue, Admit!AdmitCancelled, Admit!counters
<1>3. /\ queued' \in {queued, [queued EXCEPT ![r] = [at |-> "queued", user |-> a.user, prov |-> a.prov]]}
      /\ inflight' \in {inflight, [inflight EXCEPT !["api"] = @ - 1]}
  BY DEF Admit!Enqueue, Admit!AdmitCancelled
<1>4. /\ \A q \in Requests : q # r => request'[q] = request[q] /\ queued'[q] = queued[q]
      /\ request' \in [Requests -> [at : Admit!ApiAt, user : BOOLEAN, prov : BOOLEAN]]
      /\ queued' \in [Requests -> [at : Admit!JobAt, user : BOOLEAN, prov : BOOLEAN]]
      /\ request'[r].at = "over" /\ queued[r].at = "none" /\ queued'[r].at \in {"none", "queued"}
  BY <1>1, <1>3, AdmitKnown DEF Admit!Adm, Admit!ApiAt, Admit!JobAt, Handed, Undisturbed
<1>5. AdmitTypes'
  <2>1. /\ DOMAIN inflight' = {"api", "worker"}
        /\ inflight'["api"] \in Int /\ inflight'["worker"] \in Int
    BY <1>3, AdmitKnown
  <2> QED
    BY <1>1, <1>4, <2>1, AdmitKnown DEF AdmitTypes
<1>6. Handed(r)' /\ Backed(r)'
  BY <1>4 DEF Handed, Backed
<1>7. Undisturbed' => Told(r)'
  <2> SUFFICES ASSUME Undisturbed' PROVE Told(r)'
    OBVIOUS
  <2>1. cancels' = 0 /\ Told(r)
    BY <1>1, AdmitKnown, QuietBefore
  <2>2. queued'[r].at = "queued" /\ queued'[r].user = a.user /\ queued'[r].prov = a.prov
    BY <1>2, <2>1, AdmitKnown
  <2> QED
    BY <1>1, <1>4, <2>1, <2>2 DEF Told
<1>8. cancels' = 0 => /\ inflight'["api"] = inflight["api"] + ApiSlot(r)' - ApiSlot(r)
                      /\ inflight'["worker"] = inflight["worker"] + WorkerSlot(r)' - WorkerSlot(r)
  BY <1>1, <1>2, <1>4, AdmitKnown DEF ApiSlot, WorkerSlot, InApi, InWorker
<1> QED
  BY <1>1, <1>4, <1>5, <1>6, <1>7, <1>8, AdmitKnown, AdmissionMoves

\* The job takes a slot of the worker, and the leases of its payload again.
LEMMA ResumeKeeps ==
    ASSUME AdmitInv, Admit!AdmissionAssumption, NEW r \in Requests,
           \/ Admit!ResumeProcess(r) \/ Admit!ResumeUser(r) \/ Admit!ResumeProvider(r)
           \/ Admit!ResumeFailsOpen(r)
    PROVE  AdmitInv'
<1> DEFINE a == queued[r]
           b == queued'[r]
           begins == Admit!ResumeProcess(r)
<1>1. /\ UNCHANGED <<request, crashes, cancels>> /\ outages' \in Nat /\ outages' >= outages
      /\ \E w \in {"user", "prov", "running"} : queued' = [queued EXCEPT ![r].at = w]
      /\ a.at \in {"queued", "user", "prov"} /\ (a.at = "queued" <=> begins)
      /\ begins => /\ UNCHANGED <<userLease, provLease>>
                   /\ inflight' = [inflight EXCEPT !["worker"] = @ + 1]
      /\ ~ begins => UNCHANGED inflight
  <2>1. CASE begins
    BY <2>1, AdmitKnown DEF Admit!ResumeProcess, Admit!counters
  <2>2. CASE Admit!ResumeUser(r)
    BY <2>2, AdmitKnown DEF Admit!ResumeUser, Admit!ResumeProcess, Admit!counters
  <2>3. CASE Admit!ResumeProvider(r)
    BY <2>3, AdmitKnown DEF Admit!ResumeProvider, Admit!ResumeProcess, Admit!counters
  <2>4. CASE Admit!ResumeFailsOpen(r)
    BY <2>4, AdmitKnown DEF Admit!ResumeFailsOpen, Admit!ResumeProcess
  <2> QED
    BY <2>1, <2>2, <2>3, <2>4
<1>2. /\ \/ userLease' = userLease
         \/ a.user /\ Admit!UserOK(r) /\ userLease' = userLease \cup {r}
      /\ \/ provLease' = provLease
         \/ a.prov /\ Admit!ProvOK(r) /\ provLease' = provLease \cup {r}
  BY DEF Admit!ResumeProcess, Admit!ResumeUser, Admit!ResumeProvider, Admit!ResumeFailsOpen
<1>3. /\ \A q \in Requests : q # r => queued'[q] = queued[q]
      /\ queued' \in [Requests -> [at : Admit!JobAt, user : BOOLEAN, prov : BOOLEAN]]
      /\ b.user = a.user /\ b.prov = a.prov /\ b.at \in {"user", "prov", "running"}
  <2>1. PICK w \in {"user", "prov", "running"} : queued' = [queued EXCEPT ![r].at = w]
    BY <1>1
  <2> QED
    BY <2>1, AdmitKnown DEF Admit!JobAt
<1>4. /\ userLease' \ {r} = userLease \ {r} /\ provLease' \ {r} = provLease \ {r}
      /\ userLease' \subseteq Requests /\ provLease' \subseteq Requests
      /\ r \in userLease' => r \in userLease \/ Cardinality(LeasesOf(Owner[r])) < UserLimit
      /\ r \in provLease' => r \in provLease \/ Cardinality(provLease) < ProviderLimit
  BY <1>2, Counted, AdmitKnown
<1>5. /\ DOMAIN inflight' = {"api", "worker"} /\ inflight'["api"] = inflight["api"]
      /\ inflight'["worker"] = inflight["worker"] + (IF begins THEN 1 ELSE 0)
  BY <1>1, AdmitKnown
<1>6. AdmitTypes'
  BY <1>1, <1>3, <1>4, <1>5, AdmitKnown DEF AdmitTypes
<1>7. Handed(r)'
  BY <1>1, AdmitKnown DEF Handed
<1>8. outages' = 0 => Backed(r)'
  <2> SUFFICES ASSUME outages' = 0 PROVE Backed(r)'
    OBVIOUS
  <2>1. Backed(r) /\ ~ Admit!ResumeFailsOpen(r)
    BY <1>1, AdmitKnown DEF Admit!ResumeFailsOpen
  <2>2. CASE begins
    <3>1. b.at = "user"
      BY <2>2, AdmitKnown DEF Admit!ResumeProcess
    <3> QED
      BY <3>1 DEF Backed
  <2>3. CASE Admit!ResumeUser(r)
    <3>1. b.at = "prov" /\ (a.user => r \in userLease')
      BY <2>3, AdmitKnown DEF Admit!ResumeUser
    <3> QED
      BY <1>3, <3>1 DEF Backed
  <2>4. CASE Admit!ResumeProvider(r)
    <3>1. a.at = "prov" /\ (a.prov => r \in provLease') /\ userLease' = userLease
      BY <2>4, AdmitKnown DEF Admit!ResumeProvider
    <3> QED
      BY <1>3, <2>1, <3>1 DEF Backed
  <2> QED
    BY <2>1, <2>2, <2>3, <2>4
<1>9. Undisturbed' => Told(r)'
  <2> SUFFICES ASSUME Undisturbed' PROVE Told(r)'
    OBVIOUS
  <2>1. Told(r)
    BY <1>1, AdmitKnown, QuietBefore
  <2> QED
    BY <1>1, <1>2, <1>3, <2>1 DEF Told
<1>10. /\ inflight'["api"] = inflight["api"] + ApiSlot(r)' - ApiSlot(r)
       /\ inflight'["worker"] = inflight["worker"] + WorkerSlot(r)' - WorkerSlot(r)
  BY <1>1, <1>3, <1>5, AdmitKnown DEF ApiSlot, WorkerSlot, InApi, InWorker
<1> QED
  BY <1>1, <1>3, <1>4, <1>6, <1>7, <1>8, <1>9, <1>10, AdmitKnown, AdmissionMoves

\* The job is discarded, rejected, runs out of its slice or ends: it gives back.
LEMMA JobReleaseKeeps ==
    ASSUME AdmitInv, Admit!AdmissionAssumption, NEW r \in Requests,
           \/ Admit!Discard(r) \/ Admit!ResumeRejected(r) \/ Admit!Finish(r) \/ Admit!SliceEnds(r)
    PROVE  AdmitInv'
<1> DEFINE a == queued[r]
           b == queued'[r]
           waits == Admit!Discard(r)
<1>1. /\ UNCHANGED <<request, crashes, cancels>> /\ Admit!RemoveLeases(r, a)
      /\ queued' \in {[queued EXCEPT ![r] = Admit!Adm("none")], [queued EXCEPT ![r].at = "queued"]}
      /\ a.at \in {"queued", "user", "prov", "running"} /\ (a.at = "queued" <=> waits)
      /\ waits => UNCHANGED inflight
      /\ ~ waits => inflight' = [inflight EXCEPT !["worker"] = IF @ > 0 THEN @ - 1 ELSE @]
  BY DEF Admit!Discard, Admit!ResumeRejected, Admit!Finish, Admit!SliceEnds, Admit!Release
<1>2. /\ userLease' \subseteq userLease /\ userLease' \ {r} = userLease \ {r}
      /\ provLease' \subseteq provLease /\ provLease' \ {r} = provLease \ {r}
      /\ outages' \in Nat /\ outages' >= outages
      /\ outages' = 0 => /\ a.user => r \notin userLease'
                         /\ a.prov => r \notin provLease'
  BY <1>1, Removed
<1>3. /\ \A q \in Requests : q # r => queued'[q] = queued[q]
      /\ queued' \in [Requests -> [at : Admit!JobAt, user : BOOLEAN, prov : BOOLEAN]]
      /\ b.at \in {"none", "queued"}
  <2>1. CASE queued' = [queued EXCEPT ![r] = Admit!Adm("none")]
    BY <2>1, AdmitKnown DEF Admit!Adm, Admit!JobAt
  <2>2. CASE queued' = [queued EXCEPT ![r].at = "queued"]
    BY <2>2, AdmitKnown DEF Admit!JobAt
  <2> QED
    BY <1>1, <2>1, <2>2
<1>4. /\ DOMAIN inflight' = {"api", "worker"} /\ inflight'["api"] = inflight["api"]
      /\ inflight'["worker"] = IF ~ waits /\ inflight["worker"] > 0
                               THEN inflight["worker"] - 1 ELSE inflight["worker"]
  <2>1. CASE waits
    BY <1>1, <2>1, AdmitKnown
  <2>2. CASE ~ waits
    BY <1>1, <2>2, AdmitKnown
  <2> QED
    BY <2>1, <2>2
<1>5. AdmitTypes'
  <2>1. userLease' \subseteq Requests /\ provLease' \subseteq Requests
    BY <1>2, AdmitKnown
  <2>2. inflight'["api"] \in Int /\ inflight'["worker"] \in Int
    BY <1>4, AdmitKnown
  <2> QED
    BY <1>1, <1>2, <1>3, <1>4, <2>1, <2>2, AdmitKnown DEF AdmitTypes
<1>6. request[r].at = "over" /\ Handed(r)' /\ Backed(r)'
  BY <1>1, <1>3, AdmitKnown DEF Handed, Backed
<1>7. Undisturbed' => Told(r)'
  <2> SUFFICES ASSUME Undisturbed' PROVE Told(r)'
    OBVIOUS
  <2>1. outages' = 0 /\ Told(r)
    BY <1>1, <1>2, AdmitKnown, QuietBefore
  <2> QED
    BY <1>1, <1>2, <1>6, <2>1 DEF Told
<1>8. cancels' = 0 => /\ inflight'["api"] = inflight["api"] + ApiSlot(r)' - ApiSlot(r)
                      /\ inflight'["worker"] = inflight["worker"] + WorkerSlot(r)' - WorkerSlot(r)
  <2>1. /\ ~ InApi(r) /\ ~ InApi(r)' /\ ~ InWorker(r)'
        /\ InWorker(r) <=> ~ waits
    BY <1>1, <1>3, <1>6 DEF InApi, InWorker
  <2>2. cancels' = 0 /\ ~ waits => inflight["worker"] > 0
    BY <1>1, <2>1, SlotCounted
  <2> QED
    BY <1>4, <2>1, <2>2, AdmitKnown DEF ApiSlot, WorkerSlot
<1> QED
  BY <1>1, <1>2, <1>3, <1>5, <1>6, <1>7, <1>8, AdmitKnown, AdmissionMoves

\* A lease expires, or only the run or the clock moves.
LEMMA AroundKeeps ==
    ASSUME AdmitInv, Admit!AdmissionAssumption, NEW r \in Requests,
           Admit!Expire(r) \/ Admit!EndRun(r) \/ Admit!Deadline(r)
    PROVE  AdmitInv'
<1>1. /\ UNCHANGED <<inflight, request, queued, outages, crashes, cancels>>
      /\ userLease' \in {userLease, userLease \ {r}} /\ provLease' \in {provLease, provLease \ {r}}
      /\ queued[r].at \in {"none", "queued"} \/ UNCHANGED <<userLease, provLease>>
  BY DEF Admit!Expire, Admit!Orphaned, Admit!EndRun, Admit!Deadline, Admit!counters
<1>2. /\ userLease' \ {r} = userLease \ {r} /\ provLease' \ {r} = provLease \ {r}
      /\ r \in userLease' => r \in userLease
      /\ r \in provLease' => r \in provLease
  BY <1>1
<1>3. AdmitTypes'
  BY <1>1, AdmitKnown DEF AdmitTypes
<1>4. /\ Handed(r)' /\ (outages' = 0 => Backed(r)')
      /\ Undisturbed' => Told(r)'
  BY <1>1, <1>2, AdmitKnown DEF Handed, Backed, Told, Undisturbed
<1>5. /\ inflight'["api"] = inflight["api"] + ApiSlot(r)' - ApiSlot(r)
      /\ inflight'["worker"] = inflight["worker"] + WorkerSlot(r)' - WorkerSlot(r)
  BY <1>1, AdmitKnown DEF ApiSlot, WorkerSlot, InApi, InWorker
<1> QED
  BY <1>1, <1>2, <1>3, <1>4, <1>5, AdmitKnown, AdmissionMoves

\* A process starts again: its counter is zero, and nothing holds a slot of it.
LEMMA CrashKeeps ==
    ASSUME AdmitInv, Admit!AdmissionAssumption, Admit!WorkerCrash \/ Admit!ApiCrash
    PROVE  AdmitInv'
<1>1. /\ UNCHANGED <<userLease, provLease, outages, cancels>>
      /\ crashes \in Nat /\ crashes' = crashes + 1 /\ outages \in Nat /\ cancels \in Nat
      /\ AdmitTypes /\ \A r \in Requests : Handed(r) /\ (outages = 0 => Backed(r))
  BY DEF AdmitInv, AdmitTypes, Admit!WorkerCrash, Admit!ApiCrash
<1>2. ~ Undisturbed'
  BY <1>1 DEF Undisturbed
<1>3. Budgets'
  BY <1>1 DEF AdmitInv, Budgets, LeasesOf
<1>4. CASE Admit!WorkerCrash
  <2>1. /\ request' = request /\ inflight' = [inflight EXCEPT !["worker"] = 0]
        /\ queued' = [r \in Requests |-> IF queued[r].at = "none" THEN queued[r]
                                        ELSE [queued[r] EXCEPT !.at = "queued"]]
    BY <1>4 DEF Admit!WorkerCrash
  <2>2. /\ queued' \in [Requests -> [at : Admit!JobAt, user : BOOLEAN, prov : BOOLEAN]]
        /\ \A r \in Requests : \/ queued'[r] = queued[r] /\ queued'[r].at = "none"
                               \/ queued'[r].at = "queued" /\ queued[r].at # "none"
    BY <1>1, <2>1 DEF AdmitTypes, Admit!JobAt
  <2>3. /\ AdmitTypes'
        /\ inflight'["api"] = inflight["api"] /\ inflight'["worker"] = 0
    BY <1>1, <2>1, <2>2 DEF AdmitTypes
  <2>4. Slots'
    <3>1. ApiSlots' = ApiSlots /\ WorkerSlots' = {}
      BY <2>1, <2>2 DEF ApiSlots, WorkerSlots, InApi, InWorker
    <3> QED
      BY <1>1, <2>3, <3>1, FS_EmptySet DEF AdmitInv, Slots
  <2>5. \A r \in Requests : Handed(r)' /\ Backed(r)'
    BY <1>1, <2>1, <2>2 DEF Handed, Backed
  <2> QED
    BY <1>2, <1>3, <2>3, <2>4, <2>5 DEF AdmitInv
<1>5. CASE Admit!ApiCrash
  <2>1. /\ queued' = queued /\ inflight' = [inflight EXCEPT !["api"] = 0]
        /\ request' = [r \in Requests |-> IF request[r].at = "new" THEN request[r]
                                                                  ELSE Admit!Adm("over")]
    BY <1>5 DEF Admit!ApiCrash
  <2>2. /\ request' \in [Requests -> [at : Admit!ApiAt, user : BOOLEAN, prov : BOOLEAN]]
        /\ \A r \in Requests : \/ request'[r] = request[r] /\ request'[r].at = "new"
                               \/ request'[r].at = "over"
    BY <1>1, <2>1 DEF AdmitTypes, Admit!ApiAt, Admit!Adm
  <2>3. /\ AdmitTypes'
        /\ inflight'["worker"] = inflight["worker"] /\ inflight'["api"] = 0
    BY <1>1, <2>1, <2>2 DEF AdmitTypes
  <2>4. Slots'
    <3>1. WorkerSlots' = WorkerSlots /\ ApiSlots' = {}
      BY <2>1, <2>2 DEF ApiSlots, WorkerSlots, InApi, InWorker
    <3> QED
      BY <1>1, <2>3, <3>1, FS_EmptySet DEF AdmitInv, Slots
  <2>5. \A r \in Requests : Handed(r)' /\ (outages' = 0 => Backed(r)')
    BY <1>1, <2>1, <2>2 DEF Handed, Backed
  <2> QED
    BY <1>2, <1>3, <2>3, <2>4, <2>5 DEF AdmitInv
<1> QED
  BY <1>4, <1>5

LEMMA AdmissionStep ==
    ASSUME Admit!AdmissionAssumption
    PROVE  AdmitInv /\ [Admit!Next]_(Admit!vars) => AdmitInv'
<1> SUFFICES ASSUME AdmitInv, [Admit!Next]_(Admit!vars) PROVE AdmitInv'
  OBVIOUS
<1>1. ASSUME NEW r \in Requests, Admit!ApiStep(r) PROVE AdmitInv'
  <2>1. CASE Admit!AdmitProcess(r)
    BY <2>1, AdmitProcessKeeps
  <2>2. CASE \/ Admit!AdmitUser(r) \/ Admit!AdmitProvider(r) \/ Admit!AdmitRpm(r)
             \/ Admit!AdmitFailsOpen(r) \/ Admit!CreateRun(r)
    BY <2>2, AdmitLeaseKeeps
  <2>3. CASE Admit!AdmitRejected(r) \/ Admit!CreateFails(r) \/ Admit!EnqueueFails(r)
    BY <2>3, ApiReleaseKeeps
  <2>4. CASE Admit!Enqueue(r) \/ Admit!AdmitCancelled(r)
    BY <2>4, ApiEndsKeeps
  <2> QED
    BY <1>1, <2>1, <2>2, <2>3, <2>4 DEF Admit!ApiStep
<1>2. ASSUME NEW r \in Requests, Admit!JobStep(r) PROVE AdmitInv'
  <2>1. CASE \/ Admit!ResumeProcess(r) \/ Admit!ResumeUser(r) \/ Admit!ResumeProvider(r)
             \/ Admit!ResumeFailsOpen(r)
    BY <2>1, ResumeKeeps
  <2>2. CASE \/ Admit!Discard(r) \/ Admit!ResumeRejected(r) \/ Admit!Finish(r)
             \/ Admit!SliceEnds(r)
    BY <2>2, JobReleaseKeeps
  <2> QED
    BY <1>2, <2>1, <2>2 DEF Admit!JobStep
<1>3. ASSUME NEW r \in Requests, Admit!EndRun(r) \/ Admit!Deadline(r) \/ Admit!Expire(r)
      PROVE  AdmitInv'
  BY <1>3, AroundKeeps
<1>4. CASE Admit!WorkerCrash \/ Admit!ApiCrash
  BY <1>4, CrashKeeps
<1>5. CASE Admit!NextMinute \/ UNCHANGED Admit!vars
  <2>1. UNCHANGED <<inflight, userLease, provLease, request, queued, outages, crashes, cancels>>
    BY <1>5 DEF Admit!NextMinute, Admit!vars, Admit!counters
  <2> QED
    BY <2>1 DEF AdmitInv, AdmitTypes, Budgets, LeasesOf, Slots, ApiSlots, WorkerSlots,
                InApi, InWorker, Handed, Backed, Told, Undisturbed
<1> QED
  BY <1>1, <1>2, <1>3, <1>4, <1>5 DEF Admit!Next

\* While Redis answers, no user and no provider has more generations running than
\* its budget; the counter of each process says how many admissions are alive in it,
\* through retries, slices, crashes and failing hand-overs, unless a request was
\* cancelled while it waited for Redis; and without faults every lease has an owner
\* that gives it back (admit_generation, resume_generation_admission, release).
THEOREM SlotsAlwaysReturned ==
    ASSUME Admit!AdmissionAssumption
    PROVE  Admit!Spec => []SlotsReturned
<1>1. AdmitInv => SlotsReturned
  <2> SUFFICES ASSUME AdmitInv PROVE Admit!SlotsReturned
    BY DEF SlotsReturned
  <2>1. ASSUME outages = 0 PROVE Admit!WithinBudget
    <3>1. \A r \in Requests : Backed(r)
      BY <2>1 DEF AdmitInv
    <3>2. ASSUME NEW r \in Requests
          PROVE  Admit!Cardinality(Admit!Running(Owner[r])) <= UserLimit
      <4> DEFINE mine == LeasesOf(Owner[r])
                 some == Admit!Running(Owner[r])
      <4>1. some \subseteq mine
        BY <3>1 DEF LeasesOf, Admit!Running, Backed
      <4>2. /\ IsFiniteSet(mine) /\ Cardinality(mine) \in Nat /\ UserLimit \in Nat
            /\ Cardinality(mine) <= UserLimit
            /\ Admit!Cardinality(some) = Cardinality(some)
        BY AdmitFinite DEF AdmitInv, Budgets
      <4>3. Cardinality(some) \in Nat /\ Cardinality(some) <= Cardinality(mine)
        <5> HIDE DEF mine, some
        <5> QED
          BY <4>1, <4>2, FS_Subset, FS_CardinalityType
      <4> HIDE DEF mine
      <4> QED
        BY <4>2, <4>3
    <3>3. Admit!Cardinality({r \in Requests : queued[r].at = "running" /\ queued[r].prov})
              <= ProviderLimit
      <4> DEFINE some == {r \in Requests : queued[r].at = "running" /\ queued[r].prov}
      <4>1. some \subseteq provLease
        BY <3>1 DEF Backed
      <4>2. /\ IsFiniteSet(provLease) /\ ProviderLimit \in Nat
            /\ Cardinality(provLease) <= ProviderLimit
            /\ Admit!Cardinality(some) = Cardinality(some)
        BY AdmitFinite DEF AdmitInv, Budgets
      <4> HIDE DEF some
      <4>3. /\ Cardinality(some) \in Nat /\ Cardinality(provLease) \in Nat
            /\ Cardinality(some) <= Cardinality(provLease)
        BY <4>1, <4>2, FS_Subset, FS_CardinalityType
      <4> QED
        BY <4>2, <4>3 DEF some
    <3> QED
      BY <3>2, <3>3 DEF Admit!WithinBudget
  <2>2. ASSUME cancels = 0 PROVE Admit!SlotsExact
    <3>1. /\ Admit!Cardinality(ApiSlots) = Cardinality(ApiSlots)
          /\ Admit!Cardinality(WorkerSlots) = Cardinality(WorkerSlots)
      BY AdmitFinite
    <3> QED
      BY <2>2, <3>1 DEF AdmitInv, Slots, ApiSlots, WorkerSlots, InApi, InWorker, Admit!SlotsExact
  <2>3. ASSUME Undisturbed PROVE Admit!LeasesOwned
    BY <2>3 DEF AdmitInv, AdmitTypes, Told, Admit!LeasesOwned
  <2> QED
    BY <2>1, <2>2, <2>3 DEF Admit!SlotsReturned, Undisturbed
<1> QED
  BY <1>1, AdmissionStarts, AdmissionStep, PTL DEF Admit!Spec

-----------------------------------------------------------------------------
(* The job queue.                                                          *)

Job == [unit : Unit \cup {"none"}, at : {"none", "queued", "running", "leased"}, try : Nat]

JobTypes ==
    /\ jobs \in [Jobs!Id -> Job]
    /\ accepted \subseteq Unit /\ done \subseteq Unit /\ dead \subseteq Unit /\ dropped \subseteq Unit
    /\ unqueued \subseteq {u \in Unit : NameOf[u] \in Jobs!StoredJobs}
    /\ up \in [Jobs!Lane -> BOOLEAN]
    /\ cost \in [Unit -> Nat]

\* A job works for a unit, under the unit's own id or a fresh one; arq does
\* not count the tries of a generation.
Keyed(i) ==
    jobs[i].at # "none" =>
        /\ jobs[i].unit \in Unit
        /\ i \in Unit => jobs[i].unit = i
        /\ NameOf[jobs[i].unit] = "stage_generate" => jobs[i].try = 0

\* Every try but the one that runs has failed or was cut off.
Tried(i) ==
    jobs[i].at # "none" =>
        jobs[i].try <= cost[jobs[i].unit] + (IF jobs[i].at = "running" THEN 1 ELSE 0)

\* Where a unit's work is.
Safe(u) == u \in done \cup dead \cup dropped \cup unqueued
Queued(u) == \E i \in Jobs!Id : jobs[i].unit = u /\ jobs[i].at # "none"

\* The heartbeat is at least as old as the worker is gone.
Beats ==
    /\ beat \in Nat /\ down \in Nat /\ charged \in Nat
    /\ down <= beat /\ beat <= TTL + 1 /\ charged <= TTL
    /\ up["bulk"] => down = 0

JobInv ==
    /\ JobTypes /\ Beats
    /\ \A i \in Jobs!Id : Keyed(i) /\ Tried(i)
    /\ \A u \in accepted : Safe(u) \/ Queued(u)
    /\ \A u \in dead : MaxTries <= cost[u]

\* Cardinality and IsFiniteSet, as JobQueue instantiates them.
LEMMA JobsSets ==
    ASSUME NEW S
    PROVE  /\ Jobs!Cardinality(S) = Cardinality(S)
           /\ Jobs!IsFiniteSet(S) <=> IsFiniteSet(S)
<1>1. Jobs!Cardinality(S) = Cardinality(S)
  BY DEF Jobs!Cardinality, Cardinality
<1>2. Jobs!IsFiniteSet(S) <=> IsFiniteSet(S)
  BY DEF Jobs!IsFiniteSet, IsFiniteSet
<1> QED
  BY <1>1, <1>2

LEMMA JobsStart ==
    ASSUME Jobs!JobsAssumption
    PROVE  Jobs!Init => JobInv
<1> SUFFICES ASSUME Jobs!Init PROVE JobInv
  OBVIOUS
<1>1. JobTypes
  BY DEF Jobs!Init, JobTypes, Job, Jobs!Free
<1>2. Beats
  BY DEF Jobs!Init, Beats, Jobs!JobsAssumption, Jobs!Lane
<1>3. \A i \in Jobs!Id : Keyed(i) /\ Tried(i)
  BY DEF Jobs!Init, Keyed, Tried, Jobs!Free
<1> QED
  BY <1>1, <1>2, <1>3 DEF JobInv, Jobs!Init

\* Every job's worker knows its function.
LEMMA JobsKnown ==
    ASSUME Jobs!JobsAssumption, NEW u \in Unit
    PROVE  NameOf[u] \in Jobs!Functions(Jobs!QueueForJob(NameOf[u]))
BY DEF Jobs!JobsAssumption, Jobs!Functions, Jobs!QueueForJob, Jobs!FastQueueJobs,
       Jobs!FastFunctions, Jobs!BulkFunctions, Jobs!BatchJobs

-----------------------------------------------------------------------------
\* What a step does to the jobs: a unit is queued under its own id, or left to its cron ...
Puts(u) ==
    /\ u \in Unit
    /\ \/ (jobs[u].at # "none" \/ Safe(u)') /\ UNCHANGED jobs
       \/ jobs' = [jobs EXCEPT ![u] = [unit |-> u, at |-> "queued", try |-> 0]]
    /\ \A w \in accepted' : w \in accepted \/ w = u
    /\ \A w \in Unit : Safe(w) => Safe(w)' \/ w = u
    /\ UNCHANGED <<dead, cost>>

\* ... a job goes on, at a cost to its unit if an attempt ended ...
Goes(i, at, try) ==
    /\ jobs[i].at # "none"
    /\ jobs'[i].unit = jobs[i].unit /\ jobs'[i].at = at /\ jobs'[i].try = try
    /\ \A k \in Jobs!Id \ {i} : jobs'[k] = jobs[k]
    /\ cost' \in {cost, [cost EXCEPT ![jobs[i].unit] = @ + 1]}
    /\ NameOf[jobs[i].unit] = "stage_generate" => try = 0
    /\ try <= cost'[jobs[i].unit] + (IF at = "running" THEN 1 ELSE 0)
    /\ UNCHANGED <<unqueued, accepted, done, dead, dropped>>

\* ... or leaves, its unit being done, dead, dropped or queued afresh.
Leaves(i, u) ==
    /\ jobs[i].at # "none" /\ u = jobs[i].unit
    /\ \/ jobs' = [jobs EXCEPT ![i] = Jobs!Free] /\ Safe(u)'
       \/ \E f \in FreshIds :
             /\ jobs[f].at = "none"
             /\ jobs' = [jobs EXCEPT ![i] = Jobs!Free,
                                     ![f] = [unit |-> u, at |-> "queued", try |-> 0]]
    /\ cost' \in {cost, [cost EXCEPT ![u] = @ + 1]}
    /\ \A w \in Unit : Safe(w) => Safe(w)'
    /\ \A w \in dead' : w \in dead \/ (w = u /\ MaxTries <= cost'[w])
    /\ UNCHANGED accepted

Kinds ==
    \/ \E u \in Unit : Puts(u)
    \/ \E i \in Jobs!Id, at \in {"queued", "running", "leased"}, try \in Nat : Goes(i, at, try)
    \/ \E i \in Jobs!Id, u \in Unit : Leaves(i, u)
    \/ \E l \in Jobs!Lane, at \in {"queued", "leased"} : Jobs!Cut(l, at)
    \/ UNCHANGED <<jobs, unqueued, accepted, done, dead, dropped, cost>>

LEMMA JobKinds ==
    ASSUME Jobs!JobsAssumption, JobInv, [Jobs!Next]_(Jobs!vars)
    PROVE  Kinds /\ JobTypes'
<1>1. \A u \in Unit : Jobs!Enqueue(u) \/ Jobs!EnqueueFails(u) \/ Jobs!Sweep(u) => Puts(u) /\ JobTypes'
  <2> SUFFICES ASSUME NEW u \in Unit, Jobs!Enqueue(u) \/ Jobs!EnqueueFails(u) \/ Jobs!Sweep(u)
               PROVE  Puts(u) /\ JobTypes'
    OBVIOUS
  <2>1. u \in Jobs!Id /\ [unit |-> u, at |-> "queued", try |-> 0] \in Job
    BY DEF Jobs!Id, Job
  <2>2. Puts(u)
    BY <2>1 DEF JobInv, JobTypes, Jobs!Enqueue, Jobs!EnqueueFails, Jobs!Sweep, Jobs!Put, Puts, Safe
  <2>3. JobTypes'
    BY <2>1, <2>2 DEF JobInv, JobTypes, Jobs!Enqueue, Jobs!EnqueueFails, Jobs!Sweep, Puts
  <2> QED
    BY <2>2, <2>3
<1>2. \A i \in Jobs!Id : Jobs!Start(i) \/ Jobs!Retry(i) \/ Jobs!RetryGeneration(i) \/ Jobs!LeaseEnds(i)
        => (\E at \in {"queued", "running", "leased"}, try \in Nat : Goes(i, at, try)) /\ JobTypes'
  <2> SUFFICES ASSUME NEW i \in Jobs!Id,
                      Jobs!Start(i) \/ Jobs!Retry(i) \/ Jobs!RetryGeneration(i) \/ Jobs!LeaseEnds(i)
               PROVE  (\E at \in {"queued", "running", "leased"}, try \in Nat : Goes(i, at, try)) /\ JobTypes'
    OBVIOUS
  <2> PICK j : j = jobs[i]
    OBVIOUS
  <2>1. /\ jobs \in [Jobs!Id -> Job] /\ j \in Job /\ j.try \in Nat /\ j.unit \in Unit
        /\ cost \in [Unit -> Nat] /\ cost[j.unit] \in Nat
        /\ j = [unit |-> j.unit, at |-> j.at, try |-> j.try]
    BY DEF JobInv, JobTypes, Job, Keyed, Jobs!Start, Jobs!Retry, Jobs!RetryGeneration, Jobs!LeaseEnds
  <2>2. Keyed(i) /\ Tried(i) /\ j.at # "none"
    BY DEF JobInv, Jobs!Start, Jobs!Retry, Jobs!RetryGeneration, Jobs!LeaseEnds
  <2>3. CASE Jobs!Start(i)
    <3> DEFINE try == IF NameOf[j.unit] = "stage_generate" THEN 0 ELSE j.try + 1
    <3>1. /\ try \in Nat /\ try <= cost[j.unit] + 1 /\ (NameOf[j.unit] = "stage_generate" => try = 0)
          /\ j.at = "queued"
      BY <2>1, <2>2, <2>3 DEF Tried, Jobs!Start
    <3>2. jobs' = [jobs EXCEPT ![i].at = "running", ![i].try = try]
      BY <2>1, <2>3 DEF Jobs!Start, Jobs!Name
    <3>3. UNCHANGED <<unqueued, accepted, done, dead, dropped, cost, up>>
      BY <2>3 DEF Jobs!Start
    <3> HIDE DEF try
    <3>4. jobs' \in [Jobs!Id -> Job]
      BY <2>1, <3>1, <3>2 DEF Job
    <3>5. /\ jobs'[i].unit = j.unit /\ jobs'[i].at = "running" /\ jobs'[i].try = try
          /\ \A k \in Jobs!Id \ {i} : jobs'[k] = jobs[k]
      BY <2>1, <3>2 DEF Job
    <3>6. Goes(i, "running", try)
      BY <2>1, <3>1, <3>3, <3>5 DEF Goes
    <3> QED
      BY <3>1, <3>3, <3>4, <3>6 DEF JobInv, JobTypes
  <2>4. CASE Jobs!Retry(i)
    <3>1. cost' = [cost EXCEPT ![j.unit] = @ + 1] /\ cost' \in [Unit -> Nat] /\ cost'[j.unit] = cost[j.unit] + 1
      BY <2>1, <2>4 DEF Jobs!Retry, Jobs!Costs
    <3>2. j.try <= cost'[j.unit] /\ NameOf[j.unit] # "stage_generate"
      BY <2>1, <2>2, <2>4, <3>1 DEF Tried, Jobs!Retry, Jobs!Name
    <3>3. UNCHANGED <<unqueued, accepted, done, dead, dropped, up>> /\ jobs' = [jobs EXCEPT ![i].at = "queued"]
      BY <2>4 DEF Jobs!Retry
    <3>4. /\ jobs' \in [Jobs!Id -> Job]
          /\ jobs'[i].unit = j.unit /\ jobs'[i].at = "queued" /\ jobs'[i].try = j.try
          /\ \A k \in Jobs!Id \ {i} : jobs'[k] = jobs[k]
      BY <2>1, <3>3 DEF Job
    <3>5. Goes(i, "queued", j.try)
      BY <2>1, <2>2, <3>1, <3>2, <3>3, <3>4 DEF Goes
    <3> QED
      BY <2>1, <3>1, <3>3, <3>4, <3>5 DEF JobInv, JobTypes
  <2>5. CASE Jobs!RetryGeneration(i) \/ Jobs!LeaseEnds(i)
    <3>1. j.try <= cost[j.unit] /\ (NameOf[j.unit] = "stage_generate" => j.try = 0)
      BY <2>1, <2>2, <2>5 DEF Tried, Keyed, Jobs!RetryGeneration, Jobs!LeaseEnds, Jobs!Name
    <3>2. UNCHANGED <<unqueued, accepted, done, dead, dropped, cost, up>> /\ jobs' = [jobs EXCEPT ![i].at = "queued"]
      BY <2>5 DEF Jobs!RetryGeneration, Jobs!LeaseEnds
    <3>3. /\ jobs' \in [Jobs!Id -> Job]
          /\ jobs'[i].unit = j.unit /\ jobs'[i].at = "queued" /\ jobs'[i].try = j.try
          /\ \A k \in Jobs!Id \ {i} : jobs'[k] = jobs[k]
      BY <2>1, <3>2 DEF Job
    <3>4. Goes(i, "queued", j.try)
      BY <2>1, <2>2, <3>1, <3>2, <3>3 DEF Goes
    <3> QED
      BY <2>1, <3>2, <3>3, <3>4 DEF JobInv, JobTypes
  <2> QED
    BY <2>3, <2>4, <2>5
<1>3. \A i \in Jobs!Id : Jobs!Abandon(i) \/ Jobs!Succeed(i) \/ Jobs!DeadLetter(i) \/ Jobs!RequeueThrottled(i)
                            \/ Jobs!TimesOut(i) => (\E u \in Unit : Leaves(i, u)) /\ JobTypes'
  <2> SUFFICES ASSUME NEW i \in Jobs!Id,
                      Jobs!Abandon(i) \/ Jobs!Succeed(i) \/ Jobs!DeadLetter(i) \/ Jobs!RequeueThrottled(i)
                      \/ Jobs!TimesOut(i)
               PROVE  (\E u \in Unit : Leaves(i, u)) /\ JobTypes'
    OBVIOUS
  <2> PICK u : u = jobs[i].unit
    OBVIOUS
  <2>1. /\ jobs \in [Jobs!Id -> Job] /\ u \in Unit /\ jobs[i].at # "none"
        /\ cost \in [Unit -> Nat] /\ cost[u] \in Nat /\ jobs[i].try \in Nat
    BY DEF JobInv, JobTypes, Job, Keyed, Jobs!Abandon, Jobs!Succeed, Jobs!DeadLetter,
           Jobs!RequeueThrottled, Jobs!TimesOut
  <2>2. Keyed(i) /\ Tried(i)
    BY DEF JobInv
  <2>3. Jobs!Free \in Job /\ (\A f \in FreshIds : f \in Jobs!Id) /\ [unit |-> u, at |-> "queued", try |-> 0] \in Job
    BY <2>1 DEF Jobs!Free, Job, Jobs!Id
  <2>4. CASE Jobs!Abandon(i)
    <3>1. Jobs!Known(i)
      BY <2>1, JobsKnown DEF Jobs!Known, Jobs!Name, Jobs!LaneOf
    <3>2. /\ jobs' = [jobs EXCEPT ![i] = Jobs!Free] /\ dropped' = dropped \cup {u}
          /\ UNCHANGED <<unqueued, accepted, done, dead, cost, up>>
      BY <2>4, <3>1 DEF Jobs!Abandon
    <3>3. Leaves(i, u)
      BY <2>1, <3>2 DEF Leaves, Safe
    <3> QED
      BY <2>1, <2>3, <3>2, <3>3 DEF JobInv, JobTypes
  <2>5. CASE Jobs!Succeed(i)
    <3>1. /\ jobs' = [jobs EXCEPT ![i] = Jobs!Free] /\ done' = done \cup {u} /\ dropped' = dropped \ {u}
          /\ UNCHANGED <<unqueued, accepted, dead, cost, up>>
      BY <2>5 DEF Jobs!Succeed
    <3>2. Leaves(i, u)
      BY <2>1, <3>1 DEF Leaves, Safe
    <3> QED
      BY <2>1, <2>3, <3>1, <3>2 DEF JobInv, JobTypes
  <2>6. CASE Jobs!DeadLetter(i)
    <3>1. /\ jobs' = [jobs EXCEPT ![i] = Jobs!Free] /\ UNCHANGED <<unqueued, accepted, done, up>>
          /\ \/ dead' = dead \cup {u} /\ dropped' = dropped
             \/ dead' = dead /\ dropped' = dropped \cup {u}
      BY <2>6 DEF Jobs!DeadLetter
    <3>2. cost' = [cost EXCEPT ![u] = @ + 1] /\ cost' \in [Unit -> Nat] /\ cost'[u] = cost[u] + 1
      BY <2>1, <2>6 DEF Jobs!DeadLetter, Jobs!Costs
    <3>3. MaxTries <= cost'[u]
      BY <2>1, <2>2, <2>6, <3>2 DEF Jobs!DeadLetter, Tried
    <3>4. Leaves(i, u)
      BY <2>1, <3>1, <3>2, <3>3 DEF Leaves, Safe
    <3> QED
      BY <2>1, <2>3, <3>1, <3>2, <3>4 DEF JobInv, JobTypes
  <2>7. CASE Jobs!RequeueThrottled(i)
    <3>1. UNCHANGED <<unqueued, accepted, done, dead, cost, up>>
      BY <2>7 DEF Jobs!RequeueThrottled
    <3>2. \/ /\ dropped' = dropped
             /\ \E f \in FreshIds :
                   /\ jobs[f].at = "none"
                   /\ jobs' = [jobs EXCEPT ![i] = Jobs!Free,
                                           ![f] = [unit |-> u, at |-> "queued", try |-> 0]]
          \/ dropped' = dropped \cup {u} /\ jobs' = [jobs EXCEPT ![i] = Jobs!Free]
      BY <2>7 DEF Jobs!RequeueThrottled
    <3>3. Leaves(i, u)
      BY <2>1, <3>1, <3>2 DEF Leaves, Safe
    <3>4. jobs' \in [Jobs!Id -> Job]
      BY <2>1, <2>3, <3>2
    <3>5. dropped' \subseteq Unit
      BY <2>1, <3>2 DEF JobInv, JobTypes
    <3> QED
      BY <2>1, <3>1, <3>3, <3>4, <3>5 DEF JobInv, JobTypes
  <2>8. CASE Jobs!TimesOut(i)
    <3>1. /\ jobs' = [jobs EXCEPT ![i] = Jobs!Free] /\ dropped' = dropped \cup {u}
          /\ UNCHANGED <<unqueued, accepted, done, dead, cost, up>>
      BY <2>8 DEF Jobs!TimesOut
    <3>2. Leaves(i, u)
      BY <2>1, <3>1 DEF Leaves, Safe
    <3> QED
      BY <2>1, <2>3, <3>1, <3>2 DEF JobInv, JobTypes
  <2> QED
    BY <2>4, <2>5, <2>6, <2>7, <2>8
<1>4. \A l \in Jobs!Lane, at \in {"queued", "leased"} : Jobs!Cut(l, at) => JobTypes'
  <2> SUFFICES ASSUME NEW l \in Jobs!Lane, NEW at \in {"queued", "leased"}, Jobs!Cut(l, at) PROVE JobTypes'
    OBVIOUS
  <2>1. jobs' \in [Jobs!Id -> Job]
    BY DEF Jobs!Cut, JobInv, JobTypes, Job
  <2>2. cost' \in [Unit -> Nat]
    <3>1. ASSUME NEW u \in Unit PROVE cost[u] + Jobs!Cardinality({i \in Jobs!Running(l) : jobs[i].unit = u}) \in Nat
      <4>1. IsFiniteSet({i \in Jobs!Running(l) : jobs[i].unit = u})
        <5>1. IsFiniteSet(Jobs!Id)
          BY JobsSets, FS_Union DEF Jobs!JobsAssumption, Jobs!Id
        <5>2. {i \in Jobs!Running(l) : jobs[i].unit = u} \subseteq Jobs!Id
          BY DEF Jobs!Running
        <5> QED
          BY <5>1, <5>2, FS_Subset
      <4> QED
        BY <4>1, JobsSets, FS_CardinalityType DEF JobInv, JobTypes
    <3> QED
      BY <3>1 DEF Jobs!Cut
  <2>3. up' \in [Jobs!Lane -> BOOLEAN] /\ UNCHANGED <<unqueued, accepted, done, dead, dropped>>
    BY DEF Jobs!Cut, JobInv, JobTypes
  <2> QED
    BY <2>1, <2>2, <2>3 DEF JobInv, JobTypes
<1>5. ASSUME (\E l \in Jobs!Lane : Jobs!Startup(l)) \/ Jobs!Heartbeat \/ Jobs!Tick \/ UNCHANGED Jobs!vars
      PROVE  UNCHANGED <<jobs, unqueued, accepted, done, dead, dropped, cost>> /\ JobTypes'
  <2>1. UNCHANGED <<jobs, unqueued, accepted, done, dead, dropped, cost>>
    BY <1>5 DEF Jobs!Startup, Jobs!Heartbeat, Jobs!Tick, Jobs!vars
  <2>2. up' \in [Jobs!Lane -> BOOLEAN]
    BY <1>5 DEF Jobs!Startup, Jobs!Heartbeat, Jobs!Tick, Jobs!vars, JobInv, JobTypes
  <2> QED
    BY <2>1, <2>2 DEF JobInv, JobTypes
<1> QED
  BY <1>1, <1>2, <1>3, <1>4, <1>5 DEF Kinds, Jobs!Next, Jobs!Shutdown, Jobs!Kill

\* A worker that ends gives its jobs back, at a cost to their units.
LEMMA JobsCut ==
    ASSUME Jobs!JobsAssumption, JobInv, JobTypes',
           NEW l \in Jobs!Lane, NEW at \in {"queued", "leased"}, Jobs!Cut(l, at), NEW i \in Jobs!Id
    PROVE  /\ jobs'[i].unit = jobs[i].unit /\ jobs'[i].try = jobs[i].try
           /\ jobs'[i].at \in {jobs[i].at, at} /\ (jobs'[i].at = "none" <=> jobs[i].at = "none")
           /\ \A u \in Unit : cost[u] <= cost'[u]
           /\ jobs[i].at = "running" /\ jobs'[i].at # "running" =>
                 cost[jobs[i].unit] + 1 <= cost'[jobs[i].unit]
<1>1. jobs'[i] = IF i \in Jobs!Running(l) THEN [jobs[i] EXCEPT !.at = at] ELSE jobs[i]
  BY DEF Jobs!Cut
<1>2. jobs[i] \in Job
  BY DEF JobInv, JobTypes
<1>3. /\ jobs'[i].unit = jobs[i].unit /\ jobs'[i].try = jobs[i].try
      /\ jobs'[i].at = IF i \in Jobs!Running(l) THEN at ELSE jobs[i].at
  BY <1>1, <1>2 DEF Job
<1> DEFINE Cuts(u) == {k \in Jobs!Running(l) : jobs[k].unit = u}
<1>4. ASSUME NEW u \in Unit
      PROVE  /\ IsFiniteSet(Cuts(u)) /\ Cardinality(Cuts(u)) \in Nat
             /\ cost'[u] = cost[u] + Cardinality(Cuts(u)) /\ cost[u] \in Nat
  <2>1. IsFiniteSet(Jobs!Id)
    BY JobsSets, FS_Union DEF Jobs!JobsAssumption, Jobs!Id
  <2>2. Cuts(u) \subseteq Jobs!Id
    BY DEF Jobs!Running
  <2>3. IsFiniteSet(Cuts(u)) /\ Cardinality(Cuts(u)) \in Nat
    BY <2>1, <2>2, FS_Subset, FS_CardinalityType
  <2>4. cost'[u] = cost[u] + Jobs!Cardinality(Cuts(u))
    BY DEF Jobs!Cut
  <2> QED
    BY <2>3, <2>4, JobsSets DEF JobInv, JobTypes
<1> HIDE DEF Cuts
<1>5. \A u \in Unit : cost[u] <= cost'[u]
  BY <1>4
<1>6. ASSUME jobs[i].at = "running", jobs'[i].at # "running"
      PROVE  cost[jobs[i].unit] + 1 <= cost'[jobs[i].unit]
  <2>1. jobs[i].unit \in Unit /\ i \in Cuts(jobs[i].unit)
    BY <1>3, <1>6 DEF JobInv, Keyed, Cuts
  <2>2. Cardinality(Cuts(jobs[i].unit)) # 0
    BY <1>4, <2>1, FS_EmptySet
  <2> QED
    BY <1>4, <2>1, <2>2
<1>7. i \in Jobs!Running(l) => jobs[i].at = "running"
  BY DEF Jobs!Running
<1> QED
  BY <1>3, <1>5, <1>6, <1>7

\* No attempt is forgotten: the cost of a unit never falls.
LEMMA CostsGrow ==
    ASSUME Jobs!JobsAssumption, JobInv, Kinds, JobTypes', NEW u \in Unit
    PROVE  cost[u] \in Nat /\ cost'[u] \in Nat /\ cost[u] <= cost'[u]
<1>1. cost[u] \in Nat /\ cost'[u] \in Nat /\ cost \in [Unit -> Nat]
  BY DEF JobInv, JobTypes
<1>2. \A v \in Unit : cost' \in {cost, [cost EXCEPT ![v] = @ + 1]} => cost[u] <= cost'[u]
  BY <1>1
<1>3. ASSUME NEW i \in Jobs!Id, jobs[i].at # "none" PROVE jobs[i].unit \in Unit
  BY <1>3 DEF JobInv, Keyed
<1>4. CASE \E i \in Jobs!Id, at \in {"queued", "running", "leased"}, try \in Nat : Goes(i, at, try)
  <2>1. PICK i \in Jobs!Id, at \in {"queued", "running", "leased"}, try \in Nat : Goes(i, at, try)
    BY <1>4
  <2>2. jobs[i].unit \in Unit /\ cost' \in {cost, [cost EXCEPT ![jobs[i].unit] = @ + 1]}
    BY <1>3, <2>1 DEF Goes
  <2> QED
    BY <1>1, <1>2, <2>2
<1>5. CASE \E i \in Jobs!Id, v \in Unit : Leaves(i, v)
  <2>1. PICK i \in Jobs!Id, v \in Unit : Leaves(i, v)
    BY <1>5
  <2>2. cost' \in {cost, [cost EXCEPT ![v] = @ + 1]}
    BY <2>1 DEF Leaves
  <2> QED
    BY <1>1, <1>2, <2>2
<1>6. CASE \E l \in Jobs!Lane, at \in {"queued", "leased"} : Jobs!Cut(l, at)
  <2>1. PICK l \in Jobs!Lane, at \in {"queued", "leased"} : Jobs!Cut(l, at)
    BY <1>6
  <2>2. u \in Jobs!Id
    BY DEF Jobs!Id
  <2> QED
    BY <1>1, <2>1, <2>2, JobsCut
<1>7. CASE (\E v \in Unit : Puts(v)) \/ UNCHANGED <<jobs, unqueued, accepted, done, dead, dropped, cost>>
  BY <1>1, <1>7 DEF Puts
<1> QED
  BY <1>1, <1>4, <1>5, <1>6, <1>7 DEF Kinds

\* What a step makes of one job.
LEMMA JobsKept ==
    ASSUME Jobs!JobsAssumption, JobInv, Kinds, JobTypes', NEW i \in Jobs!Id
    PROVE  Keyed(i)' /\ Tried(i)'
<1>1. /\ Keyed(i) /\ Tried(i) /\ jobs[i] \in Job /\ jobs'[i] \in Job
      /\ jobs[i].try \in Nat /\ jobs'[i].try \in Nat
      /\ jobs \in [Jobs!Id -> Job] /\ Unit \subseteq Jobs!Id /\ FreshIds \subseteq Jobs!Id
  BY DEF JobInv, JobTypes, Job, Jobs!Id
<1>2. \A u \in Unit : cost[u] \in Nat /\ cost'[u] \in Nat /\ cost[u] <= cost'[u]
  BY CostsGrow
<1>3. ASSUME jobs'[i] = jobs[i] PROVE Keyed(i)' /\ Tried(i)'
  <2>1. Keyed(i)'
    BY <1>1, <1>3 DEF Keyed
  <2>2. Tried(i)'
    BY <1>1, <1>2, <1>3 DEF Keyed, Tried
  <2> QED
    BY <2>1, <2>2
<1>4. ASSUME NEW u \in Unit, jobs'[i] = [unit |-> u, at |-> "queued", try |-> 0], i \in Unit => u = i
      PROVE  Keyed(i)' /\ Tried(i)'
  BY <1>1, <1>2, <1>4 DEF Keyed, Tried
<1>5. CASE \E u \in Unit : Puts(u)
  <2>1. PICK u \in Unit : Puts(u)
    BY <1>5
  <2>2. jobs'[i] = jobs[i] \/ (i = u /\ jobs'[i] = [unit |-> u, at |-> "queued", try |-> 0])
    BY <1>1, <2>1 DEF Puts
  <2> QED
    BY <1>3, <1>4, <2>2
<1>6. CASE \E k \in Jobs!Id, at \in {"queued", "running", "leased"}, try \in Nat : Goes(k, at, try)
  <2>1. PICK k \in Jobs!Id, at \in {"queued", "running", "leased"}, try \in Nat : Goes(k, at, try)
    BY <1>6
  <2>2. CASE k # i
    BY <1>3, <2>1, <2>2 DEF Goes
  <2>3. CASE k = i
    BY <1>1, <1>2, <2>1, <2>3 DEF Goes, Keyed, Tried
  <2> QED
    BY <2>2, <2>3
<1>7. CASE \E k \in Jobs!Id, u \in Unit : Leaves(k, u)
  <2>1. PICK k \in Jobs!Id, u \in Unit : Leaves(k, u)
    BY <1>7
  <2>2. \/ jobs'[i] = jobs[i] \/ jobs'[i] = Jobs!Free
        \/ i \in FreshIds /\ jobs'[i] = [unit |-> u, at |-> "queued", try |-> 0]
    BY <1>1, <2>1 DEF Leaves
  <2>3. jobs'[i] = Jobs!Free => Keyed(i)' /\ Tried(i)'
    BY DEF Jobs!Free, Keyed, Tried
  <2>4. i \in FreshIds => i \notin Unit
    BY DEF Jobs!JobsAssumption
  <2> QED
    BY <1>3, <1>4, <2>2, <2>3, <2>4
<1>8. CASE \E l \in Jobs!Lane, at \in {"queued", "leased"} : Jobs!Cut(l, at)
  <2>1. PICK l \in Jobs!Lane, at \in {"queued", "leased"} : Jobs!Cut(l, at)
    BY <1>8
  <2>2. /\ jobs'[i].unit = jobs[i].unit /\ jobs'[i].try = jobs[i].try
        /\ jobs'[i].at \in {jobs[i].at, at} /\ (jobs'[i].at = "none" <=> jobs[i].at = "none")
        /\ jobs[i].at = "running" /\ jobs'[i].at # "running" =>
              cost[jobs[i].unit] + 1 <= cost'[jobs[i].unit]
    BY <2>1, JobsCut
  <2>3. Keyed(i)'
    BY <1>1, <2>2 DEF Keyed
  <2>4. Tried(i)'
    BY <1>1, <1>2, <2>2 DEF Keyed, Tried
  <2> QED
    BY <2>3, <2>4
<1>9. CASE UNCHANGED <<jobs, unqueued, accepted, done, dead, dropped, cost>>
  BY <1>3, <1>9
<1> QED
  BY <1>5, <1>6, <1>7, <1>8, <1>9 DEF Kinds

\* What a step makes of one accepted unit.
LEMMA UnitsKept ==
    ASSUME Jobs!JobsAssumption, JobInv, Kinds, JobTypes', NEW u \in accepted'
    PROVE  (Safe(u) \/ Queued(u))'
<1>1. jobs \in [Jobs!Id -> Job] /\ u \in Unit /\ Unit \subseteq Jobs!Id /\ FreshIds \subseteq Jobs!Id
  BY DEF JobInv, JobTypes, Jobs!Id
<1>2. u \in accepted => Safe(u) \/ Queued(u)
  BY DEF JobInv
<1>3. CASE \E v \in Unit : Puts(v)
  <2>1. PICK v \in Unit : Puts(v)
    BY <1>3
  <2>2. CASE u = v
    <3>1. CASE Safe(u)'
      BY <3>1
    <3>2. CASE ~ Safe(u)'
      <4>1. Queued(u)'
        BY <1>1, <2>1, <2>2, <3>2 DEF Puts, JobInv, Keyed, Queued
      <4> QED
        BY <4>1
    <3> QED
      BY <3>1, <3>2
  <2>3. CASE u # v
    <3>1. u \in accepted /\ (Safe(u) => Safe(u)')
      BY <1>1, <2>1, <2>3 DEF Puts
    <3>2. ASSUME NEW i \in Jobs!Id, jobs[i].unit = u, jobs[i].at # "none" PROVE Queued(u)'
      <4>1. i # v \/ UNCHANGED jobs
        BY <2>1, <2>3, <3>2 DEF Puts, JobInv, Keyed
      <4>2. jobs'[i] = jobs[i]
        BY <1>1, <2>1, <4>1 DEF Puts
      <4> QED
        BY <3>2, <4>2 DEF Queued
    <3> QED
      BY <1>2, <3>1, <3>2 DEF Queued
  <2> QED
    BY <2>2, <2>3
<1>4. CASE \E k \in Jobs!Id, at \in {"queued", "running", "leased"}, try \in Nat : Goes(k, at, try)
  <2>1. PICK k \in Jobs!Id, at \in {"queued", "running", "leased"}, try \in Nat : Goes(k, at, try)
    BY <1>4
  <2>2. u \in accepted /\ (Safe(u) => Safe(u)')
    BY <2>1 DEF Goes, Safe
  <2>3. \A i \in Jobs!Id : jobs'[i].unit = jobs[i].unit /\ (jobs[i].at # "none" => jobs'[i].at # "none")
    BY <2>1 DEF Goes
  <2> QED
    BY <1>2, <2>2, <2>3 DEF Queued
<1>5. CASE \E k \in Jobs!Id, v \in Unit : Leaves(k, v)
  <2>1. PICK k \in Jobs!Id, v \in Unit : Leaves(k, v)
    BY <1>5
  <2>2. u \in accepted /\ (Safe(u) => Safe(u)')
    BY <1>1, <2>1 DEF Leaves
  <2>3. u = v => (Safe(u) \/ Queued(u))'
    BY <1>1, <2>1 DEF Leaves, Queued
  <2>4. ASSUME NEW i \in Jobs!Id, jobs[i].unit = u, jobs[i].at # "none", u # v PROVE Queued(u)'
    <3>1. jobs'[i] = jobs[i]
      BY <1>1, <2>1, <2>4 DEF Leaves
    <3> QED
      BY <2>4, <3>1 DEF Queued
  <2> QED
    BY <1>2, <2>2, <2>3, <2>4 DEF Queued
<1>6. CASE \E l \in Jobs!Lane, at \in {"queued", "leased"} : Jobs!Cut(l, at)
  <2>1. PICK l \in Jobs!Lane, at \in {"queued", "leased"} : Jobs!Cut(l, at)
    BY <1>6
  <2>2. u \in accepted /\ (Safe(u) => Safe(u)')
    BY <2>1 DEF Jobs!Cut, Safe
  <2>3. \A i \in Jobs!Id : jobs'[i].unit = jobs[i].unit /\ (jobs'[i].at = "none" <=> jobs[i].at = "none")
    BY <2>1, JobsCut
  <2> QED
    BY <1>2, <2>2, <2>3 DEF Queued
<1>7. CASE UNCHANGED <<jobs, unqueued, accepted, done, dead, dropped, cost>>
  BY <1>2, <1>7 DEF Safe, Queued
<1> QED
  BY <1>3, <1>4, <1>5, <1>6, <1>7 DEF Kinds

LEMMA DeadPaid ==
    ASSUME Jobs!JobsAssumption, JobInv, Kinds, JobTypes', NEW u \in dead'
    PROVE  MaxTries <= cost'[u]
<1>1. u \in Unit /\ MaxTries \in Nat /\ (u \in dead => MaxTries <= cost[u])
  BY DEF JobInv, JobTypes, Jobs!JobsAssumption
<1>2. cost[u] \in Nat /\ cost'[u] \in Nat /\ cost[u] <= cost'[u]
  BY <1>1, CostsGrow
<1>3. u \in dead \/ MaxTries <= cost'[u]
  BY DEF Kinds, Puts, Goes, Leaves, Jobs!Cut
<1> QED
  BY <1>1, <1>2, <1>3

\* The heartbeat: a generation is charged only while it is fresh.
LEMMA BeatsKept ==
    ASSUME Jobs!JobsAssumption, JobInv, [Jobs!Next]_(Jobs!vars)
    PROVE  Beats'
<1>1. Beats /\ TTL \in Nat /\ up \in [Jobs!Lane -> BOOLEAN] /\ "bulk" \in Jobs!Lane
  BY DEF JobInv, JobTypes, Jobs!JobsAssumption, Jobs!Lane
<1>2. CASE \E u \in Unit : Jobs!Enqueue(u) \/ Jobs!EnqueueFails(u) \/ Jobs!Sweep(u)
  <2>1. UNCHANGED <<beat, down, up>> /\ (charged' = charged \/ (charged' = down /\ beat <= TTL))
    BY <1>2 DEF Jobs!Enqueue, Jobs!EnqueueFails, Jobs!Sweep, Jobs!Ready
  <2> QED
    BY <1>1, <2>1 DEF Beats
<1>3. CASE \E i \in Jobs!Id : \/ Jobs!Start(i) \/ Jobs!Abandon(i) \/ Jobs!Succeed(i) \/ Jobs!Retry(i)
                               \/ Jobs!DeadLetter(i) \/ Jobs!RequeueThrottled(i)
                               \/ Jobs!RetryGeneration(i) \/ Jobs!TimesOut(i) \/ Jobs!LeaseEnds(i)
  <2>1. UNCHANGED <<beat, down, up, charged>>
    BY <1>3 DEF Jobs!Start, Jobs!Abandon, Jobs!Succeed, Jobs!Retry, Jobs!DeadLetter,
                Jobs!RequeueThrottled, Jobs!RetryGeneration, Jobs!TimesOut, Jobs!LeaseEnds
  <2> QED
    BY <1>1, <2>1 DEF Beats
<1>4. CASE \E l \in Jobs!Lane : Jobs!Shutdown(l) \/ Jobs!Kill(l)
  <2>1. UNCHANGED <<beat, down, charged>> /\ \E l \in Jobs!Lane : up' = [up EXCEPT ![l] = FALSE]
    BY <1>4 DEF Jobs!Shutdown, Jobs!Kill, Jobs!Cut
  <2>2. up'["bulk"] => up["bulk"]
    BY <1>1, <2>1
  <2> QED
    BY <1>1, <2>1, <2>2 DEF Beats
<1>5. CASE \E l \in Jobs!Lane : Jobs!Startup(l)
  <2>1. PICK l \in Jobs!Lane : Jobs!Startup(l)
    BY <1>5
  <2>2. /\ charged' = charged /\ up' = [up EXCEPT ![l] = TRUE]
        /\ IF l = "bulk" THEN beat' = 0 /\ down' = 0 ELSE beat' = beat /\ down' = down
    BY <2>1 DEF Jobs!Startup
  <2> QED
    BY <1>1, <2>2 DEF Beats
<1>6. CASE Jobs!Heartbeat
  BY <1>1, <1>6 DEF Jobs!Heartbeat, Beats
<1>7. CASE Jobs!Tick
  BY <1>1, <1>7 DEF Jobs!Tick, Beats
<1>8. CASE UNCHANGED Jobs!vars
  BY <1>1, <1>8 DEF Jobs!vars, Beats
<1> QED
  BY <1>2, <1>3, <1>4, <1>5, <1>6, <1>7, <1>8 DEF Jobs!Next

LEMMA JobsKeep ==
    ASSUME Jobs!JobsAssumption, JobInv, [Jobs!Next]_(Jobs!vars)
    PROVE  JobInv'
<1>1. Kinds /\ JobTypes' /\ Beats'
  BY JobKinds, BeatsKept
<1>2. \A i \in Jobs!Id : Keyed(i)' /\ Tried(i)'
  BY <1>1, JobsKept
<1>3. \A u \in accepted' : (Safe(u) \/ Queued(u))'
  BY <1>1, UnitsKept
<1>4. \A u \in dead' : MaxTries <= cost'[u]
  BY <1>1, DeadPaid
<1> QED
  BY <1>1, <1>2, <1>3, <1>4 DEF JobInv

\* Accepted work is never lost in silence, though the billing webhooks and the
\* batches are accepted when Redis refuses their job, the dead-letter list holds only
\* units whose attempts failed or were cut off MaxTries times, and nobody is
\* charged for a generation while no worker lives (make_job_wrapper,
\* _requeue_throttled, generation_worker_snapshot).
THEOREM AcceptedWorkKept ==
    ASSUME Jobs!JobsAssumption
    PROVE  Jobs!Spec => [](Jobs!WorkKept /\ Jobs!ThrottlesAreFree /\ Jobs!ChargedWhileReady)
<1>1. Jobs!Init => JobInv
  BY JobsStart
<1>2. JobInv /\ [Jobs!Next]_(Jobs!vars) => JobInv'
  BY JobsKeep
<1>3. JobInv => Jobs!WorkKept /\ Jobs!ThrottlesAreFree /\ Jobs!ChargedWhileReady
  <2> SUFFICES ASSUME JobInv PROVE Jobs!WorkKept /\ Jobs!ThrottlesAreFree /\ Jobs!ChargedWhileReady
    OBVIOUS
  <2>1. Jobs!WorkKept
    BY DEF JobInv, JobTypes, Safe, Queued, Jobs!WorkKept
  <2>2. Jobs!ThrottlesAreFree
    BY DEF JobInv, JobTypes, Jobs!ThrottlesAreFree, Jobs!JobsAssumption
  <2>3. Jobs!ChargedWhileReady
    BY DEF JobInv, Beats, Jobs!ChargedWhileReady
  <2> QED
    BY <2>1, <2>2, <2>3
<1> QED
  BY <1>1, <1>2, <1>3, PTL DEF Jobs!Spec

-----------------------------------------------------------------------------
(* Evaluations.                                                            *)

Verdict == [score : {0, 1}, findings : Nat]

EvalTask == [at : {"none", "dispatch", "judge", "persist", "over"}, row : Nat, seen : Nat]
EvalOwner == [at : {"idle", "commit"}, row : Nat, seen : Nat]
EvalBatch == [at : {"none", "pending", "submitted", "gone"}, sent : Nat, held : Nat, seen : Nat,
              old : BOOLEAN]
EvalWork == [at : {"none", "submit", "sent", "collect", "write", "delete"}, row : Nat]

EvalTypes ==
    /\ harness \in Nat /\ evals \in Seq(Verdict) /\ saved \in {"no", "yes"}
    /\ judge \in EvalTask /\ owner \in EvalOwner /\ batch \in EvalBatch /\ evalJob \in EvalWork
    /\ scores \in Nat /\ unbilled \in Nat /\ leftover \in BOOLEAN

\* The evaluation starts with the save and dispatches once; a job works for a
\* batch that waits for it.
InOrder ==
    /\ saved = "no" => judge.at = "none" /\ owner.at = "idle" /\ evals = <<>> /\ scores = 0
    /\ judge.at \in {"none", "dispatch"} => batch.at = "none" /\ evalJob.at = "none"
    /\ evalJob.at \in {"submit", "sent"} => batch.at = "pending"
    /\ evalJob.at \in {"collect", "write", "delete"} => batch.at = "submitted"

\* Whoever holds a row holds the only one ...
OneRow ==
    ~ leftover =>
        /\ Len(evals) = (IF saved = "yes" THEN 1 ELSE 0)
        /\ judge.at = "persist" => judge.row = 1
        /\ evalJob.at = "write" => evalJob.row = 1
        /\ owner.at = "commit" => owner.row = 1

\* ... and only one of the process and the batch has a score to write.
OneScore ==
    ~ leftover =>
        /\ judge.at # "over" => batch.at = "none" /\ scores = 0
        /\ batch.at \in {"pending", "submitted"} /\ evalJob.at # "delete" => scores = 0
        /\ scores <= 1

Billed == batch.sent = batch.held + unbilled + (IF evalJob.at = "sent" THEN 1 ELSE 0)

EvalInv == EvalTypes /\ InOrder /\ OneRow /\ OneScore /\ Billed

LEMMA EvalsStart == Evals!Init => EvalInv
<1> SUFFICES ASSUME Evals!Init PROVE EvalInv
  OBVIOUS
<1>1. evals = <<>> /\ Len(evals) = 0 /\ evals \in Seq(Verdict)
  BY DEF Evals!Init
<1>2. EvalTypes
  BY <1>1 DEF Evals!Init, Evals!NoRow, EvalTypes, EvalTask, EvalOwner, EvalBatch, EvalWork
<1>3. InOrder /\ OneRow /\ OneScore /\ Billed
  BY <1>1 DEF Evals!Init, InOrder, OneRow, OneScore, Billed
<1> QED
  BY <1>2, <1>3 DEF EvalInv

\* Rows are appended or written in place.
LEMMA RowsStay ==
    ASSUME EvalTypes, NEW v \in Verdict, NEW i \in Nat, NEW h \in Nat
    PROVE  /\ Len(evals) \in Nat
           /\ Append(evals, v) \in Seq(Verdict) /\ Len(Append(evals, v)) = Len(evals) + 1
           /\ [evals EXCEPT ![i] = v] \in Seq(Verdict) /\ Len([evals EXCEPT ![i] = v]) = Len(evals)
           /\ [evals EXCEPT ![i].findings = h] \in Seq(Verdict)
           /\ Len([evals EXCEPT ![i].findings = h]) = Len(evals)
<1>1. evals \in Seq(Verdict)
  BY DEF EvalTypes
<1>2. ASSUME i \in 1..Len(evals)
      PROVE  /\ [evals EXCEPT ![i].findings = h] \in Seq(Verdict)
             /\ Len([evals EXCEPT ![i].findings = h]) = Len(evals)
  <2>1. evals[i] \in Verdict
    BY <1>1, <1>2
  <2>2. PICK w : w = [evals[i] EXCEPT !.findings = h]
    OBVIOUS
  <2>3. w \in Verdict
    BY <2>1, <2>2 DEF Verdict
  <2>4. [evals EXCEPT ![i].findings = h] = [evals EXCEPT ![i] = w]
    BY <2>2
  <2>5. [evals EXCEPT ![i] = w] \in Seq(Verdict) /\ Len([evals EXCEPT ![i] = w]) = Len(evals)
    BY <1>1, <1>2, <2>3
  <2> QED
    BY <2>4, <2>5
<1>3. ASSUME i \notin 1..Len(evals)
      PROVE  [evals EXCEPT ![i].findings = h] = evals
  BY <1>1, <1>3
<1>4. Len(evals) \in Nat /\ Append(evals, v) \in Seq(Verdict) /\ Len(Append(evals, v)) = Len(evals) + 1
  BY <1>1
<1>5. [evals EXCEPT ![i] = v] \in Seq(Verdict) /\ Len([evals EXCEPT ![i] = v]) = Len(evals)
  <2>1. CASE i \in 1..Len(evals)
    BY <1>1, <2>1
  <2>2. CASE i \notin 1..Len(evals)
    <3>1. [evals EXCEPT ![i] = v] = evals
      BY <1>1, <2>2
    <3> QED
      BY <1>1, <3>1
  <2> QED
    BY <2>1, <2>2
<1> QED
  BY <1>1, <1>2, <1>3, <1>4, <1>5

\* Only these four write rows.
LEMMA RowsTyped ==
    ASSUME EvalTypes, [Evals!Next]_(Evals!vars)
    PROVE  evals' \in Seq(Verdict)
<1>1. CASE Evals!PersistStructural
  <2>1. PICK w \in Verdict : w = Evals!Row(0, harness)
    BY DEF Evals!Row, Verdict, EvalTypes
  <2>2. evals' = Append(evals, w)
    BY <1>1, <2>1 DEF Evals!PersistStructural
  <2> QED
    BY <2>2, RowsStay
<1>2. CASE Evals!PersistScore
  <2>1. PICK i \in Nat, h \in Nat : i = judge.row /\ h = judge.seen
    BY DEF EvalTypes, EvalTask, EvalOwner, EvalBatch, EvalWork
  <2>2. PICK w \in Verdict : w = Evals!Row(1, h)
    BY DEF Evals!Row, Verdict
  <2>3. evals' \in {Append(evals, w), [evals EXCEPT ![i] = w]}
    BY <1>2, <2>1, <2>2 DEF Evals!PersistScore, Evals!Stored
  <2> QED
    BY <2>3, RowsStay
<1>3. CASE Evals!CollectWrite
  <2>1. PICK i \in Nat, h \in Nat : i = evalJob.row /\ h = batch.seen
    BY DEF EvalTypes, EvalTask, EvalOwner, EvalBatch, EvalWork
  <2>2. PICK w \in Verdict : w = Evals!Row(1, h)
    BY DEF Evals!Row, Verdict
  <2>3. evals' \in {Append(evals, w), [evals EXCEPT ![i] = w]}
    BY <1>3, <2>1, <2>2 DEF Evals!CollectWrite, Evals!Stored
  <2> QED
    BY <2>3, RowsStay
<1>4. CASE Evals!RevalidateCommit
  <2>1. PICK i \in Nat, h \in Nat : i = owner.row /\ h = owner.seen
    BY DEF EvalTypes, EvalTask, EvalOwner, EvalBatch, EvalWork
  <2>2. PICK w \in Verdict : w = Evals!Row(0, h)
    BY DEF Evals!Row, Verdict
  <2>3. evals' \in {Append(evals, w), [evals EXCEPT ![i].findings = h]}
    BY <1>4, <2>1, <2>2 DEF Evals!RevalidateCommit
  <2> QED
    BY <2>3, RowsStay
<1>5. CASE UNCHANGED evals
  BY <1>5 DEF EvalTypes
<1> QED
  BY <1>1, <1>2, <1>3, <1>4, <1>5
     DEF Evals!StructuralFails, Evals!SampledOut, Evals!ScoreInline, Evals!EnqueueBatch,
          Evals!CommittedButFailed, Evals!JudgeFails, Evals!Judge, Evals!SubmitNothing,
          Evals!SubmitCall, Evals!SubmitCommit, Evals!CollectNothing, Evals!NotEnded,
          Evals!Fetch, Evals!Fallback, Evals!CollectDelete, Evals!JobBreaks, Evals!TaskDies,
          Evals!Sweep, Evals!Ages, Evals!Revalidate, Evals!HarnessMoves, Evals!Next, Evals!vars

LEMMA EvalTypesKept ==
    ASSUME EvalTypes, [Evals!Next]_(Evals!vars)
    PROVE  EvalTypes'
<1>1. Len(evals) \in Nat /\ harness \in Nat
  BY DEF EvalTypes
<1>2. evals' \in Seq(Verdict)
  BY RowsTyped
<1>3. judge' \in EvalTask
  <2>1. CASE Evals!PersistStructural
    BY <1>1, <2>1 DEF Evals!PersistStructural, EvalTypes, EvalTask
  <2>2. CASE Evals!StructuralFails
    BY <1>1, <2>2 DEF Evals!StructuralFails, EvalTypes, EvalTask
  <2>3. CASE Evals!SampledOut
    BY <1>1, <2>3 DEF Evals!SampledOut, EvalTypes, EvalTask
  <2>4. CASE Evals!ScoreInline
    BY <1>1, <2>4 DEF Evals!ScoreInline, EvalTypes, EvalTask
  <2>5. CASE Evals!EnqueueBatch
    BY <1>1, <2>5 DEF Evals!EnqueueBatch, Evals!Pending, EvalTypes, EvalTask
  <2>6. CASE Evals!CommittedButFailed
    BY <1>1, <2>6 DEF Evals!CommittedButFailed, Evals!Pending, EvalTypes, EvalTask
  <2>7. CASE Evals!JudgeFails
    BY <1>1, <2>7 DEF Evals!JudgeFails, EvalTypes, EvalTask
  <2>8. CASE Evals!Judge
    BY <1>1, <2>8 DEF Evals!Judge, Evals!Latest, EvalTypes, EvalTask
  <2>9. CASE Evals!PersistScore
    BY <1>1, <2>9 DEF Evals!PersistScore, EvalTypes, EvalTask
  <2>10. CASE Evals!TaskDies
    BY <1>1, <2>10 DEF Evals!TaskDies, EvalTypes, EvalTask
  <2>11. CASE UNCHANGED judge
    BY <2>11 DEF EvalTypes
  <2> QED
    BY <2>1, <2>2, <2>3, <2>4, <2>5, <2>6, <2>7, <2>8, <2>9, <2>10, <2>11
       DEF Evals!SubmitNothing, Evals!SubmitCall, Evals!SubmitCommit, Evals!CollectNothing,
            Evals!NotEnded, Evals!Fetch, Evals!Fallback, Evals!CollectWrite,
            Evals!CollectDelete, Evals!JobBreaks, Evals!Sweep, Evals!Ages, Evals!Revalidate,
            Evals!RevalidateCommit, Evals!HarnessMoves, Evals!Next, Evals!vars
<1>4. owner' \in EvalOwner
  <2>1. CASE Evals!Revalidate
    BY <1>1, <2>1 DEF Evals!Revalidate, Evals!Latest, EvalTypes, EvalOwner
  <2>2. CASE Evals!RevalidateCommit
    BY <1>1, <2>2 DEF Evals!RevalidateCommit, EvalTypes, EvalOwner
  <2>3. CASE UNCHANGED owner
    BY <2>3 DEF EvalTypes
  <2> QED
    BY <2>1, <2>2, <2>3
       DEF Evals!PersistStructural, Evals!StructuralFails, Evals!SampledOut, Evals!ScoreInline,
            Evals!EnqueueBatch, Evals!CommittedButFailed, Evals!JudgeFails, Evals!Judge,
            Evals!PersistScore, Evals!SubmitNothing, Evals!SubmitCall, Evals!SubmitCommit,
            Evals!CollectNothing, Evals!NotEnded, Evals!Fetch, Evals!Fallback,
            Evals!CollectWrite, Evals!CollectDelete, Evals!JobBreaks, Evals!TaskDies,
            Evals!Sweep, Evals!Ages, Evals!HarnessMoves, Evals!Next, Evals!vars
<1>5. batch' \in EvalBatch
  <2>1. CASE Evals!EnqueueBatch
    BY <1>1, <2>1 DEF Evals!EnqueueBatch, Evals!Pending, EvalTypes, EvalBatch, EvalTask
  <2>2. CASE Evals!CommittedButFailed
    BY <1>1, <2>2 DEF Evals!CommittedButFailed, Evals!Pending, EvalTypes, EvalBatch, EvalTask
  <2>3. CASE Evals!SubmitCall
    <3>1. PICK h \in Nat : h = batch.sent + 1
      BY DEF EvalTypes, EvalBatch
    <3>2. batch' = [batch EXCEPT !.sent = h]
      BY <2>3, <3>1 DEF Evals!SubmitCall
    <3> QED
      BY <3>1, <3>2 DEF EvalTypes, EvalBatch
  <2>4. CASE Evals!SubmitCommit
    <3>1. PICK h \in Nat : h = batch.held + 1
      BY DEF EvalTypes, EvalBatch
    <3>2. batch' = [batch EXCEPT !.at = "submitted", !.held = h]
      BY <2>4, <3>1 DEF Evals!SubmitCommit
    <3> QED
      BY <3>1, <3>2 DEF EvalTypes, EvalBatch
  <2>5. CASE Evals!CollectDelete
    BY <1>1, <2>5 DEF Evals!CollectDelete, EvalTypes, EvalBatch, EvalTask
  <2>6. CASE Evals!Ages
    BY <1>1, <2>6 DEF Evals!Ages, EvalTypes, EvalBatch, EvalTask
  <2>7. CASE UNCHANGED batch
    BY <2>7 DEF EvalTypes
  <2> QED
    BY <2>1, <2>2, <2>3, <2>4, <2>5, <2>6, <2>7
       DEF Evals!PersistStructural, Evals!StructuralFails, Evals!SampledOut, Evals!ScoreInline,
            Evals!JudgeFails, Evals!Judge, Evals!PersistScore, Evals!SubmitNothing,
            Evals!CollectNothing, Evals!NotEnded, Evals!Fetch, Evals!Fallback,
            Evals!CollectWrite, Evals!JobBreaks, Evals!TaskDies, Evals!Sweep, Evals!Revalidate,
            Evals!RevalidateCommit, Evals!HarnessMoves, Evals!Next, Evals!vars
<1>6. evalJob' \in EvalWork
  <2>1. CASE Evals!EnqueueBatch
    BY <1>1, <2>1 DEF Evals!EnqueueBatch, Evals!Pending, EvalTypes, EvalWork
  <2>2. CASE Evals!SubmitNothing
    BY <1>1, <2>2 DEF Evals!SubmitNothing, EvalTypes, EvalWork
  <2>3. CASE Evals!SubmitCall
    BY <1>1, <2>3 DEF Evals!SubmitCall, EvalTypes, EvalWork
  <2>4. CASE Evals!SubmitCommit
    BY <1>1, <2>4 DEF Evals!SubmitCommit, EvalTypes, EvalWork
  <2>5. CASE Evals!CollectNothing
    BY <1>1, <2>5 DEF Evals!CollectNothing, EvalTypes, EvalWork
  <2>6. CASE Evals!NotEnded
    BY <1>1, <2>6 DEF Evals!NotEnded, EvalTypes, EvalWork
  <2>7. CASE Evals!Fetch
    BY <1>1, <2>7 DEF Evals!Fetch, Evals!Latest, EvalTypes, EvalWork
  <2>8. CASE Evals!Fallback
    BY <1>1, <2>8 DEF Evals!Fallback, Evals!Latest, EvalTypes, EvalWork
  <2>9. CASE Evals!CollectWrite
    BY <1>1, <2>9 DEF Evals!CollectWrite, EvalTypes, EvalWork
  <2>10. CASE Evals!CollectDelete
    BY <1>1, <2>10 DEF Evals!CollectDelete, EvalTypes, EvalWork
  <2>11. CASE Evals!JobBreaks
    BY <1>1, <2>11 DEF Evals!JobBreaks, EvalTypes, EvalWork
  <2>12. CASE Evals!Sweep
    BY <1>1, <2>12 DEF Evals!Sweep, EvalTypes, EvalWork
  <2>13. CASE UNCHANGED evalJob
    BY <2>13 DEF EvalTypes
  <2> QED
    BY <2>1, <2>2, <2>3, <2>4, <2>5, <2>6, <2>7, <2>8, <2>9, <2>10, <2>11, <2>12, <2>13
       DEF Evals!PersistStructural, Evals!StructuralFails, Evals!SampledOut, Evals!ScoreInline,
            Evals!CommittedButFailed, Evals!JudgeFails, Evals!Judge, Evals!PersistScore,
            Evals!TaskDies, Evals!Ages, Evals!Revalidate, Evals!RevalidateCommit,
            Evals!HarnessMoves, Evals!Next, Evals!vars
<1>7. harness' \in Nat /\ saved' \in {"no", "yes"} /\ scores' \in Nat /\ unbilled' \in Nat
      /\ leftover' \in BOOLEAN
  <2>1. harness' \in Nat /\ saved' \in {"no", "yes"}
    BY DEF Evals!PersistStructural, Evals!StructuralFails, Evals!SampledOut, Evals!ScoreInline,
            Evals!EnqueueBatch, Evals!CommittedButFailed, Evals!JudgeFails, Evals!Judge,
            Evals!PersistScore, Evals!SubmitNothing, Evals!SubmitCall, Evals!SubmitCommit,
            Evals!CollectNothing, Evals!NotEnded, Evals!Fetch, Evals!Fallback, Evals!CollectWrite,
            Evals!CollectDelete, Evals!JobBreaks, Evals!TaskDies, Evals!Sweep, Evals!Ages,
            Evals!Revalidate, Evals!RevalidateCommit, Evals!HarnessMoves, Evals!Next, Evals!vars,
            EvalTypes
  <2>2. scores' \in Nat
    BY DEF Evals!PersistStructural, Evals!StructuralFails, Evals!SampledOut, Evals!ScoreInline,
            Evals!EnqueueBatch, Evals!CommittedButFailed, Evals!JudgeFails, Evals!Judge,
            Evals!PersistScore, Evals!SubmitNothing, Evals!SubmitCall, Evals!SubmitCommit,
            Evals!CollectNothing, Evals!NotEnded, Evals!Fetch, Evals!Fallback, Evals!CollectWrite,
            Evals!CollectDelete, Evals!JobBreaks, Evals!TaskDies, Evals!Sweep, Evals!Ages,
            Evals!Revalidate, Evals!RevalidateCommit, Evals!HarnessMoves, Evals!Next, Evals!vars,
            EvalTypes
  <2>3. unbilled' \in Nat
    BY DEF Evals!PersistStructural, Evals!StructuralFails, Evals!SampledOut, Evals!ScoreInline,
            Evals!EnqueueBatch, Evals!CommittedButFailed, Evals!JudgeFails, Evals!Judge,
            Evals!PersistScore, Evals!SubmitNothing, Evals!SubmitCall, Evals!SubmitCommit,
            Evals!CollectNothing, Evals!NotEnded, Evals!Fetch, Evals!Fallback, Evals!CollectWrite,
            Evals!CollectDelete, Evals!JobBreaks, Evals!TaskDies, Evals!Sweep, Evals!Ages,
            Evals!Revalidate, Evals!RevalidateCommit, Evals!HarnessMoves, Evals!Next, Evals!vars,
            EvalTypes
  <2>4. leftover' \in BOOLEAN
    <3>1. CASE Evals!JobBreaks
      BY <3>1 DEF Evals!JobBreaks, EvalTypes
    <3>2. CASE ~ Evals!JobBreaks
      BY <3>2 DEF Evals!PersistStructural, Evals!StructuralFails, Evals!SampledOut, Evals!ScoreInline,
              Evals!EnqueueBatch, Evals!CommittedButFailed, Evals!JudgeFails, Evals!Judge,
              Evals!PersistScore, Evals!SubmitNothing, Evals!SubmitCall, Evals!SubmitCommit,
              Evals!CollectNothing, Evals!NotEnded, Evals!Fetch, Evals!Fallback, Evals!CollectWrite,
              Evals!CollectDelete, Evals!TaskDies, Evals!Sweep, Evals!Ages,
              Evals!Revalidate, Evals!RevalidateCommit, Evals!HarnessMoves, Evals!Next, Evals!vars,
              EvalTypes
    <3> QED
      BY <3>1, <3>2
  <2> QED
    BY <2>1, <2>2, <2>3, <2>4
<1> QED
  BY <1>2, <1>3, <1>4, <1>5, <1>6, <1>7 DEF EvalTypes

LEMMA EvalsKept ==
    ASSUME EvalInv, [Evals!Next]_(Evals!vars)
    PROVE  EvalInv'
<1>1. EvalTypes /\ InOrder /\ OneRow /\ OneScore /\ Billed /\ EvalTypes'
  BY EvalTypesKept DEF EvalInv
<1>2. CASE Evals!PersistStructural
  BY <1>1, <1>2 DEF Evals!PersistStructural, Evals!Row, EvalTypes, EvalTask,
     EvalOwner, EvalBatch, EvalWork, InOrder, OneRow, OneScore, Billed, EvalInv
<1>3. CASE Evals!StructuralFails
  <2>1. /\ UNCHANGED <<evals, owner, batch, evalJob, scores, unbilled>>
        /\ saved = "no"
        /\ saved' = "yes"
        /\ leftover' = TRUE
        /\ judge'.at = "dispatch"
    BY <1>1, <1>3 DEF Evals!StructuralFails, Evals!Fault, EvalTypes, EvalTask
  <2>2. InOrder'
    BY <1>1, <2>1 DEF InOrder, EvalTypes
  <2>3. OneRow'
    BY <1>1, <2>1 DEF OneRow, InOrder, EvalTypes
  <2>4. OneScore'
    BY <1>1, <2>1 DEF OneScore, InOrder, EvalTypes
  <2>5. Billed'
    BY <1>1, <2>1 DEF Billed, InOrder, EvalTypes, EvalBatch
  <2> QED
    BY <1>1, <2>2, <2>3, <2>4, <2>5 DEF EvalInv
<1>4. CASE Evals!SampledOut
  <2>1. /\ UNCHANGED <<evals, saved, owner, batch, evalJob, scores, unbilled, leftover>>
        /\ judge.at = "dispatch"
        /\ judge'.at = "over"
    BY <1>1, <1>4 DEF Evals!SampledOut, EvalTypes, EvalTask
  <2>2. InOrder'
    BY <1>1, <2>1 DEF InOrder, EvalTypes
  <2>3. OneRow'
    BY <1>1, <2>1 DEF OneRow, InOrder, EvalTypes
  <2>4. OneScore'
    BY <1>1, <2>1 DEF OneScore, InOrder, EvalTypes
  <2>5. Billed'
    BY <1>1, <2>1 DEF Billed, InOrder, EvalTypes, EvalBatch
  <2> QED
    BY <1>1, <2>2, <2>3, <2>4, <2>5 DEF EvalInv
<1>5. CASE Evals!ScoreInline
  <2>1. /\ UNCHANGED <<evals, saved, owner, batch, evalJob, scores, unbilled, leftover>>
        /\ judge.at = "dispatch"
        /\ judge'.at = "judge"
    BY <1>1, <1>5 DEF Evals!ScoreInline, EvalTypes, EvalTask
  <2>2. InOrder'
    BY <1>1, <2>1 DEF InOrder, EvalTypes
  <2>3. OneRow'
    BY <1>1, <2>1 DEF OneRow, InOrder, EvalTypes
  <2>4. OneScore'
    BY <1>1, <2>1 DEF OneScore, InOrder, EvalTypes
  <2>5. Billed'
    BY <1>1, <2>1 DEF Billed, InOrder, EvalTypes, EvalBatch
  <2> QED
    BY <1>1, <2>2, <2>3, <2>4, <2>5 DEF EvalInv
<1>6. CASE Evals!EnqueueBatch
  <2>1. /\ UNCHANGED <<evals, saved, owner, scores, unbilled, leftover>>
        /\ judge.at = "dispatch"
        /\ judge'.at = "over"
        /\ batch'.at = "pending"
        /\ batch'.sent = batch.sent
        /\ batch'.held = batch.held
        /\ (evalJob'.at = "submit" \/ evalJob' = evalJob)
    BY <1>1, <1>6 DEF Evals!EnqueueBatch, Evals!Pending, Evals!Fault, EvalTypes, EvalBatch, EvalTask, EvalWork
  <2>2. InOrder'
    BY <1>1, <2>1 DEF InOrder, EvalTypes
  <2>3. OneRow'
    BY <1>1, <2>1 DEF OneRow, InOrder, EvalTypes
  <2>4. OneScore'
    BY <1>1, <2>1 DEF OneScore, InOrder, EvalTypes
  <2>5. Billed'
    BY <1>1, <2>1 DEF Billed, InOrder, EvalTypes, EvalBatch
  <2> QED
    BY <1>1, <2>2, <2>3, <2>4, <2>5 DEF EvalInv
<1>7. CASE Evals!CommittedButFailed
  <2>1. /\ UNCHANGED <<evals, saved, owner, evalJob, scores, unbilled>>
        /\ judge.at = "dispatch"
        /\ judge'.at = "judge"
        /\ batch'.at = "pending"
        /\ batch'.sent = batch.sent
        /\ batch'.held = batch.held
        /\ leftover' = TRUE
    BY <1>1, <1>7 DEF Evals!CommittedButFailed, Evals!Pending, Evals!Fault, EvalTypes, EvalBatch, EvalTask
  <2>2. InOrder'
    BY <1>1, <2>1 DEF InOrder, EvalTypes
  <2>3. OneRow'
    BY <1>1, <2>1 DEF OneRow, InOrder, EvalTypes
  <2>4. OneScore'
    BY <1>1, <2>1 DEF OneScore, InOrder, EvalTypes
  <2>5. Billed'
    BY <1>1, <2>1 DEF Billed, InOrder, EvalTypes, EvalBatch
  <2> QED
    BY <1>1, <2>2, <2>3, <2>4, <2>5 DEF EvalInv
<1>8. CASE Evals!JudgeFails
  <2>1. /\ UNCHANGED <<evals, saved, owner, batch, evalJob, scores, unbilled, leftover>>
        /\ judge.at = "judge"
        /\ judge'.at = "over"
    BY <1>1, <1>8 DEF Evals!JudgeFails, EvalTypes, EvalTask
  <2>2. InOrder'
    BY <1>1, <2>1 DEF InOrder, EvalTypes
  <2>3. OneRow'
    BY <1>1, <2>1 DEF OneRow, InOrder, EvalTypes
  <2>4. OneScore'
    BY <1>1, <2>1 DEF OneScore, InOrder, EvalTypes
  <2>5. Billed'
    BY <1>1, <2>1 DEF Billed, InOrder, EvalTypes, EvalBatch
  <2> QED
    BY <1>1, <2>2, <2>3, <2>4, <2>5 DEF EvalInv
<1>9. CASE Evals!Judge
  <2>1. /\ UNCHANGED <<evals, saved, owner, batch, evalJob, scores, unbilled, leftover>>
        /\ judge.at = "judge"
        /\ judge'.at = "persist"
        /\ judge'.row = Len(evals)
    BY <1>1, <1>9 DEF Evals!Judge, Evals!Latest, EvalTypes, EvalTask
  <2>2. InOrder'
    BY <1>1, <2>1 DEF InOrder, EvalTypes
  <2>3. OneRow'
    BY <1>1, <2>1 DEF OneRow, InOrder, EvalTypes
  <2>4. OneScore'
    BY <1>1, <2>1 DEF OneScore, InOrder, EvalTypes
  <2>5. Billed'
    BY <1>1, <2>1 DEF Billed, InOrder, EvalTypes, EvalBatch
  <2> QED
    BY <1>1, <2>2, <2>3, <2>4, <2>5 DEF EvalInv
<1>10. CASE Evals!PersistScore
  <2>1. ~ leftover => Len(evals') = Len(evals)
    <3>1. PICK w \in Verdict : w = Evals!Row(1, judge.seen)
      BY <1>1 DEF Evals!Row, Verdict, EvalTypes, EvalTask
    <3>2. PICK i \in Nat : i = judge.row
      BY <1>1 DEF EvalTypes, EvalTask
    <3>3. Len([evals EXCEPT ![i] = w]) = Len(evals)
      BY <1>1, <3>1, RowsStay
    <3>4. ~ leftover => judge.row = 1
      BY <1>1, <1>10 DEF Evals!PersistScore, OneRow
    <3>5. ~ leftover => evals' = [evals EXCEPT ![i] = w]
      BY <1>10, <3>1, <3>2, <3>4 DEF Evals!PersistScore, Evals!Stored, Evals!NoRow
    <3> QED
      BY <3>3, <3>5
  <2>2. /\ UNCHANGED <<saved, owner, batch, evalJob, unbilled, leftover>>
        /\ judge.at = "persist" /\ judge'.at = "over" /\ scores' = scores + 1
    BY <1>1, <1>10 DEF Evals!PersistScore, EvalTypes, EvalTask
  <2>3. saved = "yes"
    BY <1>1, <2>2 DEF EvalTypes, InOrder
  <2>4. InOrder' /\ OneRow' /\ Billed'
    BY <1>1, <2>1, <2>2, <2>3 DEF InOrder, OneRow, Billed
  <2>5. OneScore'
    BY <1>1, <2>2 DEF OneScore, EvalTypes
  <2> QED
    BY <1>1, <2>4, <2>5 DEF EvalInv
<1>11. CASE Evals!SubmitNothing
  <2>1. /\ UNCHANGED <<evals, saved, judge, owner, batch, scores, unbilled, leftover>>
        /\ evalJob.at = "submit"
        /\ evalJob'.at = "none"
    BY <1>1, <1>11 DEF Evals!SubmitNothing, EvalTypes, EvalWork
  <2>2. InOrder'
    BY <1>1, <2>1 DEF InOrder, EvalTypes
  <2>3. OneRow'
    BY <1>1, <2>1 DEF OneRow, InOrder, EvalTypes
  <2>4. OneScore'
    BY <1>1, <2>1 DEF OneScore, InOrder, EvalTypes
  <2>5. Billed'
    BY <1>1, <2>1 DEF Billed, InOrder, EvalTypes, EvalBatch
  <2> QED
    BY <1>1, <2>2, <2>3, <2>4, <2>5 DEF EvalInv
<1>12. CASE Evals!SubmitCall
  <2>1. /\ UNCHANGED <<evals, saved, judge, owner, scores, unbilled, leftover>>
        /\ evalJob.at = "submit"
        /\ evalJob'.at = "sent"
        /\ batch'.at = batch.at
        /\ batch'.sent = batch.sent + 1
        /\ batch'.held = batch.held
    BY <1>1, <1>12 DEF Evals!SubmitCall, EvalTypes, EvalBatch, EvalWork
  <2>2. InOrder'
    BY <1>1, <2>1 DEF InOrder, EvalTypes
  <2>3. OneRow'
    BY <1>1, <2>1 DEF OneRow, InOrder, EvalTypes
  <2>4. OneScore'
    BY <1>1, <2>1 DEF OneScore, InOrder, EvalTypes
  <2>5. Billed'
    BY <1>1, <2>1 DEF Billed, InOrder, EvalTypes, EvalBatch
  <2> QED
    BY <1>1, <2>2, <2>3, <2>4, <2>5 DEF EvalInv
<1>13. CASE Evals!SubmitCommit
  <2>1. /\ UNCHANGED <<evals, saved, judge, owner, scores, unbilled, leftover>>
        /\ evalJob.at = "sent"
        /\ evalJob'.at = "none"
        /\ batch'.at = "submitted"
        /\ batch'.sent = batch.sent
        /\ batch'.held = batch.held + 1
    BY <1>1, <1>13 DEF Evals!SubmitCommit, EvalTypes, EvalBatch, EvalWork
  <2>2. InOrder'
    BY <1>1, <2>1 DEF InOrder, EvalTypes
  <2>3. OneRow'
    BY <1>1, <2>1 DEF OneRow, InOrder, EvalTypes
  <2>4. OneScore'
    BY <1>1, <2>1 DEF OneScore, InOrder, EvalTypes
  <2>5. Billed'
    BY <1>1, <2>1 DEF Billed, InOrder, EvalTypes, EvalBatch
  <2> QED
    BY <1>1, <2>2, <2>3, <2>4, <2>5 DEF EvalInv
<1>14. CASE Evals!CollectNothing
  <2>1. /\ UNCHANGED <<evals, saved, judge, owner, batch, scores, unbilled, leftover>>
        /\ evalJob.at = "collect"
        /\ evalJob'.at = "none"
    BY <1>1, <1>14 DEF Evals!CollectNothing, EvalTypes, EvalWork
  <2>2. InOrder'
    BY <1>1, <2>1 DEF InOrder, EvalTypes
  <2>3. OneRow'
    BY <1>1, <2>1 DEF OneRow, InOrder, EvalTypes
  <2>4. OneScore'
    BY <1>1, <2>1 DEF OneScore, InOrder, EvalTypes
  <2>5. Billed'
    BY <1>1, <2>1 DEF Billed, InOrder, EvalTypes, EvalBatch
  <2> QED
    BY <1>1, <2>2, <2>3, <2>4, <2>5 DEF EvalInv
<1>15. CASE Evals!NotEnded
  <2>1. /\ UNCHANGED <<evals, saved, judge, owner, batch, scores, unbilled, leftover>>
        /\ evalJob.at = "collect"
        /\ evalJob'.at = "none"
    BY <1>1, <1>15 DEF Evals!NotEnded, EvalTypes, EvalWork
  <2>2. InOrder'
    BY <1>1, <2>1 DEF InOrder, EvalTypes
  <2>3. OneRow'
    BY <1>1, <2>1 DEF OneRow, InOrder, EvalTypes
  <2>4. OneScore'
    BY <1>1, <2>1 DEF OneScore, InOrder, EvalTypes
  <2>5. Billed'
    BY <1>1, <2>1 DEF Billed, InOrder, EvalTypes, EvalBatch
  <2> QED
    BY <1>1, <2>2, <2>3, <2>4, <2>5 DEF EvalInv
<1>16. CASE Evals!Fetch
  <2>1. /\ UNCHANGED <<evals, saved, judge, owner, batch, scores, unbilled, leftover>>
        /\ evalJob.at = "collect"
        /\ batch.at = "submitted"
        /\ evalJob'.at = "write"
        /\ evalJob'.row = Len(evals)
    BY <1>1, <1>16 DEF Evals!Fetch, Evals!Latest, EvalTypes, EvalWork
  <2>2. InOrder'
    BY <1>1, <2>1 DEF InOrder, EvalTypes
  <2>3. OneRow'
    BY <1>1, <2>1 DEF OneRow, InOrder, EvalTypes
  <2>4. OneScore'
    BY <1>1, <2>1 DEF OneScore, InOrder, EvalTypes
  <2>5. Billed'
    BY <1>1, <2>1 DEF Billed, InOrder, EvalTypes, EvalBatch
  <2> QED
    BY <1>1, <2>2, <2>3, <2>4, <2>5 DEF EvalInv
<1>17. CASE Evals!Fallback
  <2>1. /\ UNCHANGED <<evals, saved, judge, owner, batch, scores, unbilled, leftover>>
        /\ evalJob.at = "collect"
        /\ batch.at = "submitted"
        /\ (evalJob'.at = "write" /\ evalJob'.row = Len(evals)) \/ evalJob'.at = "delete"
    BY <1>1, <1>17 DEF Evals!Fallback, Evals!Latest, EvalTypes, EvalWork
  <2>2. InOrder'
    BY <1>1, <2>1 DEF InOrder, EvalTypes
  <2>3. OneRow'
    BY <1>1, <2>1 DEF OneRow, InOrder, EvalTypes
  <2>4. OneScore'
    BY <1>1, <2>1 DEF OneScore, InOrder, EvalTypes
  <2>5. Billed'
    BY <1>1, <2>1 DEF Billed, InOrder, EvalTypes, EvalBatch
  <2> QED
    BY <1>1, <2>2, <2>3, <2>4, <2>5 DEF EvalInv
<1>18. CASE Evals!CollectWrite
  <2>1. ~ leftover => Len(evals') = Len(evals)
    <3>1. PICK w \in Verdict : w = Evals!Row(1, batch.seen)
      BY <1>1 DEF Evals!Row, Verdict, EvalTypes, EvalBatch
    <3>2. PICK i \in Nat : i = evalJob.row
      BY <1>1 DEF EvalTypes, EvalWork
    <3>3. Len([evals EXCEPT ![i] = w]) = Len(evals)
      BY <1>1, <3>1, RowsStay
    <3>4. ~ leftover => evalJob.row = 1
      BY <1>1, <1>18 DEF Evals!CollectWrite, OneRow
    <3>5. ~ leftover => evals' = [evals EXCEPT ![i] = w]
      BY <1>18, <3>1, <3>2, <3>4 DEF Evals!CollectWrite, Evals!Stored, Evals!NoRow
    <3> QED
      BY <3>3, <3>5
  <2>2. /\ UNCHANGED <<saved, judge, owner, batch, unbilled, leftover>>
        /\ evalJob.at = "write" /\ evalJob'.at = "delete" /\ scores' = scores + 1
    BY <1>1, <1>18 DEF Evals!CollectWrite, EvalTypes, EvalWork
  <2>3. saved = "yes" /\ batch.at = "submitted"
    BY <1>1, <2>2 DEF EvalTypes, InOrder
  <2>4. InOrder' /\ OneRow' /\ Billed'
    BY <1>1, <2>1, <2>2, <2>3 DEF InOrder, OneRow, Billed
  <2>5. OneScore'
    BY <1>1, <2>2, <2>3 DEF OneScore, EvalTypes
  <2> QED
    BY <1>1, <2>4, <2>5 DEF EvalInv
<1>19. CASE Evals!CollectDelete
  <2>1. /\ UNCHANGED <<evals, saved, judge, owner, scores, unbilled, leftover>>
        /\ evalJob.at = "delete"
        /\ evalJob'.at = "none"
        /\ batch'.at = "gone"
        /\ batch'.sent = batch.sent
        /\ batch'.held = batch.held
    BY <1>1, <1>19 DEF Evals!CollectDelete, EvalTypes, EvalBatch, EvalWork
  <2>2. InOrder'
    BY <1>1, <2>1 DEF InOrder, EvalTypes
  <2>3. OneRow'
    BY <1>1, <2>1 DEF OneRow, InOrder, EvalTypes
  <2>4. OneScore'
    BY <1>1, <2>1 DEF OneScore, InOrder, EvalTypes
  <2>5. Billed'
    BY <1>1, <2>1 DEF Billed, InOrder, EvalTypes, EvalBatch
  <2> QED
    BY <1>1, <2>2, <2>3, <2>4, <2>5 DEF EvalInv
<1>20. CASE Evals!JobBreaks
  <2>1. /\ evalJob' \in EvalWork /\ evalJob'.at = "none"
        /\ unbilled' = unbilled + (IF evalJob.at = "sent" THEN 1 ELSE 0)
        /\ leftover' = (leftover \/ evalJob.at = "delete")
        /\ UNCHANGED <<evals, saved, judge, owner, batch, scores>>
    BY <1>1, <1>20 DEF Evals!JobBreaks, EvalTypes, EvalWork
  <2>2. InOrder' /\ OneRow' /\ Billed'
    BY <1>1, <2>1 DEF InOrder, OneRow, Billed, EvalTypes, EvalBatch, EvalWork
  <2>3. OneScore'
    BY <1>1, <2>1 DEF OneScore
  <2> QED
    BY <1>1, <2>2, <2>3 DEF EvalInv
<1>21. CASE Evals!TaskDies
  <2>1. /\ UNCHANGED <<evals, saved, owner, batch, evalJob, scores, unbilled, leftover>>
        /\ judge.at \in {"judge", "persist"}
        /\ judge'.at = "over"
    BY <1>1, <1>21 DEF Evals!TaskDies, Evals!Fault, EvalTypes, EvalTask
  <2>2. InOrder'
    BY <1>1, <2>1 DEF InOrder, EvalTypes
  <2>3. OneRow'
    BY <1>1, <2>1 DEF OneRow, InOrder, EvalTypes
  <2>4. OneScore'
    BY <1>1, <2>1 DEF OneScore, InOrder, EvalTypes
  <2>5. Billed'
    BY <1>1, <2>1 DEF Billed, InOrder, EvalTypes, EvalBatch
  <2> QED
    BY <1>1, <2>2, <2>3, <2>4, <2>5 DEF EvalInv
<1>22. CASE Evals!Sweep
  <2>1. /\ UNCHANGED <<evals, saved, judge, owner, batch, scores, unbilled, leftover>>
        /\ evalJob.at = "none"
        /\ batch.at \in {"pending", "submitted"}
        /\ evalJob'.at = IF batch.at = "pending" THEN "submit" ELSE "collect"
    BY <1>1, <1>22 DEF Evals!Sweep, EvalTypes, EvalWork
  <2>2. InOrder'
    BY <1>1, <2>1 DEF InOrder, EvalTypes
  <2>3. OneRow'
    BY <1>1, <2>1 DEF OneRow, InOrder, EvalTypes
  <2>4. OneScore'
    BY <1>1, <2>1 DEF OneScore, InOrder, EvalTypes
  <2>5. Billed'
    BY <1>1, <2>1 DEF Billed, InOrder, EvalTypes, EvalBatch
  <2> QED
    BY <1>1, <2>2, <2>3, <2>4, <2>5 DEF EvalInv
<1>23. CASE Evals!Ages
  <2>1. /\ UNCHANGED <<evals, saved, judge, owner, evalJob, scores, unbilled, leftover>>
        /\ batch'.at = batch.at
        /\ batch'.sent = batch.sent
        /\ batch'.held = batch.held
    BY <1>1, <1>23 DEF Evals!Ages, EvalTypes, EvalBatch
  <2>2. InOrder'
    BY <1>1, <2>1 DEF InOrder, EvalTypes
  <2>3. OneRow'
    BY <1>1, <2>1 DEF OneRow, InOrder, EvalTypes
  <2>4. OneScore'
    BY <1>1, <2>1 DEF OneScore, InOrder, EvalTypes
  <2>5. Billed'
    BY <1>1, <2>1 DEF Billed, InOrder, EvalTypes, EvalBatch
  <2> QED
    BY <1>1, <2>2, <2>3, <2>4, <2>5 DEF EvalInv
<1>24. CASE Evals!Revalidate
  <2>1. /\ UNCHANGED <<evals, saved, judge, batch, evalJob, scores, unbilled, leftover>>
        /\ owner'.at = "commit"
        /\ owner'.row = Len(evals)
        /\ saved = "yes"
    BY <1>1, <1>24 DEF Evals!Revalidate, Evals!Latest, EvalTypes, EvalOwner
  <2>2. InOrder'
    BY <1>1, <2>1 DEF InOrder, EvalTypes
  <2>3. OneRow'
    BY <1>1, <2>1 DEF OneRow, InOrder, EvalTypes
  <2>4. OneScore'
    BY <1>1, <2>1 DEF OneScore, InOrder, EvalTypes
  <2>5. Billed'
    BY <1>1, <2>1 DEF Billed, InOrder, EvalTypes, EvalBatch
  <2> QED
    BY <1>1, <2>2, <2>3, <2>4, <2>5 DEF EvalInv
<1>25. CASE Evals!RevalidateCommit
  <2>1. ~ leftover => Len(evals') = Len(evals)
    <3>1. PICK w \in Verdict : w = Evals!Row(0, 0)
      BY DEF Evals!Row, Verdict
    <3>2. PICK i \in Nat, h \in Nat : i = owner.row /\ h = owner.seen
      BY <1>1 DEF EvalTypes, EvalOwner
    <3>3. Len([evals EXCEPT ![i].findings = h]) = Len(evals)
      BY <1>1, <3>1, RowsStay
    <3>4. ~ leftover => owner.row = 1
      BY <1>1, <1>25 DEF Evals!RevalidateCommit, OneRow
    <3>5. ~ leftover => evals' = [evals EXCEPT ![i].findings = h]
      BY <1>25, <3>2, <3>4 DEF Evals!RevalidateCommit, Evals!NoRow
    <3> QED
      BY <3>3, <3>5
  <2>2. UNCHANGED <<saved, judge, batch, evalJob, scores, unbilled, leftover>> /\ owner'.at = "idle"
    BY <1>1, <1>25 DEF Evals!RevalidateCommit, EvalTypes, EvalOwner
  <2>3. saved = "yes"
    BY <1>1, <1>25 DEF Evals!RevalidateCommit, EvalTypes, InOrder
  <2> QED
    BY <1>1, <2>1, <2>2, <2>3 DEF InOrder, OneRow, OneScore, Billed, EvalInv
<1>26. CASE Evals!HarnessMoves
  <2>1. /\ UNCHANGED <<evals, saved, judge, owner, batch, evalJob, scores, unbilled, leftover>>
    BY <1>1, <1>26 DEF Evals!HarnessMoves, EvalTypes
  <2>2. InOrder'
    BY <1>1, <2>1 DEF InOrder, EvalTypes
  <2>3. OneRow'
    BY <1>1, <2>1 DEF OneRow, InOrder, EvalTypes
  <2>4. OneScore'
    BY <1>1, <2>1 DEF OneScore, InOrder, EvalTypes
  <2>5. Billed'
    BY <1>1, <2>1 DEF Billed, InOrder, EvalTypes, EvalBatch
  <2> QED
    BY <1>1, <2>2, <2>3, <2>4, <2>5 DEF EvalInv
<1>27. CASE UNCHANGED Evals!vars
  BY <1>1, <1>27 DEF Evals!vars, InOrder, OneRow, OneScore, Billed, EvalInv
<1> QED
  BY <1>2, <1>3, <1>4, <1>5, <1>6, <1>7, <1>8, <1>9, <1>10, <1>11, <1>12, <1>13, <1>14, <1>15,
          <1>16, <1>17, <1>18, <1>19, <1>20, <1>21, <1>22, <1>23, <1>24, <1>25, <1>26, <1>27
     DEF Evals!Next

\* An evaluation of a version is one row that is scored once, by the process or
\* by its batch, and a batch that was paid for is held by its row until then,
\* whichever of them, the sweep and the owner's revalidation is first
\* (_persist_eval_data, enqueue_eval_batch, collect_eval_batches).
THEOREM EvaluationsScoredOnce ==
    Evals!Spec => [](Evals!OneEvalRow /\ Evals!ScoredOnce /\ Evals!BatchKept)
<1>1. EvalInv => Evals!OneEvalRow /\ Evals!ScoredOnce /\ Evals!BatchKept
  <2> SUFFICES ASSUME EvalInv PROVE Evals!OneEvalRow /\ Evals!ScoredOnce /\ Evals!BatchKept
    OBVIOUS
  <2>1. Evals!OneEvalRow
    BY DEF EvalInv, EvalTypes, OneRow, Evals!OneEvalRow
  <2>2. Evals!ScoredOnce
    BY DEF EvalInv, OneScore, Evals!ScoredOnce
  <2>3. Evals!BatchKept
    BY DEF EvalInv, InOrder, Billed, Evals!BatchKept
  <2> QED
    BY <2>1, <2>2, <2>3
<1> QED
  BY <1>1, EvalsStart, EvalsKept, PTL DEF Evals!Spec

-----------------------------------------------------------------------------
(* The queue and the evaluations side by side. *)

\* Neither the queue nor the evaluations that go through it loses or repeats
\* work (make_job_wrapper, collect_eval_batches).
THEOREM NoWorkLost ==
    ASSUME Jobs!JobsAssumption
    PROVE  Jobs!Spec /\ Evals!Spec => []WorkKept
<1>1. /\ Jobs!WorkKept /\ Jobs!ThrottlesAreFree /\ Jobs!ChargedWhileReady
      /\ Evals!OneEvalRow /\ Evals!ScoredOnce /\ Evals!BatchKept
      => WorkKept
  BY DEF WorkKept
<1> QED
  BY <1>1, AcceptedWorkKept, EvaluationsScoredOnce, PTL
=============================================================================
