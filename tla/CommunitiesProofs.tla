------------------------- MODULE CommunitiesProofs -------------------------
(***************************************************************************)
(* What Communities guarantees for any number of users and of concurrent   *)
(* handlers.                                                               *)
(***************************************************************************)
EXTENDS Communities, FiniteSetTheorems, TLAPS

(***************************************************************************)
(* A handler with fields f: requests about users name one; the endpoints   *)
(* of a channel work on channels; nobody got past a role check before the  *)
(* owner had the role; without a race the counter it has read, and the row *)
(* it is about to delete, are those of the tables, and it finds no row of  *)
(* a user for whom it is about to add one.                                 *)
(***************************************************************************)
Named(f) ==
    /\ f.op \in {"join", "leave", "rsvp"} => f.user \in Users
    /\ f.pc # "free" => f.op # "none"

Entitled(f) ==
    /\ space = "absent" => f.op = "none" /\ f.pc = "free"
    /\ kind = "community" => f.op \notin {"leave", "posts", "analytics"}
    /\ kind = "community" /\ space = "created" /\ f.pc = "commit" => f.op \in {"create", "delete"}

Counts(f) ==
    Exists /\ "count" \notin raced /\ f.op \in Counting =>
        /\ f.loaded = count
        /\ f.op = "leave" /\ f.pc = "commit" => f.row \in rows[f.user]

First(f) ==
    f.pc = "commit" /\ f.user \in Users \ raced =>
        /\ f.op = "join" => rows[f.user] = {}
        /\ f.op = "rsvp" => rsvps[f.user] = 0

Good(f) == Named(f) /\ Entitled(f) /\ Counts(f) /\ First(f)

(***************************************************************************)
(* Rows have an id of their own, and there are none before the community   *)
(* is complete or after it is deleted.                                     *)
(***************************************************************************)
RowInv ==
    /\ \A u, v \in Users : u # v => rows[u] \cap rows[v] = {}
    /\ space = "absent" => count = 0
    /\ space \in {"absent", "deleted"} => parts = {} /\ Rows = {}
    /\ kind = "community" /\ space = "created" => parts = {} /\ Rows = {}

IInv ==
    /\ TypeOK /\ RowInv
    /\ CountMatches /\ OncePerUser
    /\ \A r \in Requests : Good(req[r])

-----------------------------------------------------------------------------
RequestType ==
    [pc : {"free", "check", "commit"},
     op : {"none", "create", "join", "leave", "delete", "rsvp", "posts",
           "analytics", "events", "resources"},
     user : Users \cup {"none"}, loaded : Int, row : Nat]

(***************************************************************************)
(* An idle handler satisfies its part of the invariant.                    *)
(***************************************************************************)
LEMMA FreeIsGood == Free \in RequestType /\ Good(Free) /\ Good(Free)'
BY DEF Free, RequestType, Good, Named, Entitled, Counts, First, Counting

(***************************************************************************)
(* The tables are finite.                                                  *)
(***************************************************************************)
LEMMA FiniteRows ==
    ASSUME TypeOK
    PROVE  /\ IsFiniteSet(Rows) /\ Cardinality(Rows) \in Nat
           /\ \A u \in Users : IsFiniteSet(rows[u]) /\ Cardinality(rows[u]) \in Nat
<1>1. made \in Nat /\ Rows \subseteq 1 .. made /\ \A u \in Users : rows[u] \subseteq 1 .. made
  BY CommunitiesAssumption DEF TypeOK, Rows
<1>2. IsFiniteSet(1 .. made)
  BY <1>1, FS_Interval
<1>3. IsFiniteSet(Rows) /\ \A u \in Users : IsFiniteSet(rows[u])
  BY <1>1, <1>2, FS_Subset
<1> QED BY <1>3, FS_CardinalityType

(***************************************************************************)
(* Initially there is nothing.                                             *)
(***************************************************************************)
LEMMA IInvInit == Init => IInv
<1> SUFFICES ASSUME Init PROVE IInv
  OBVIOUS
<1> USE CommunitiesAssumption DEF Init
<1>1. TypeOK
  BY FreeIsGood DEF TypeOK, RequestType
<1>2. RowInv
  BY DEF RowInv, Rows
<1>3. CountMatches
  BY DEF CountMatches, Exists
<1>4. OncePerUser
  BY FS_EmptySet DEF OncePerUser
<1>5. \A r \in Requests : Good(req[r])
  BY FreeIsGood
<1> QED BY <1>1, <1>2, <1>3, <1>4, <1>5 DEF IInv

(***************************************************************************)
(* A step that only moves handler r on.                                    *)
(***************************************************************************)
LEMMA MovesOn ==
    ASSUME IInv, NEW r \in Requests, NEW f \in RequestType, Good(f), Fill(r, f),
           UNCHANGED <<dbVars, raced>>
    PROVE  IInv'
<1>1. UNCHANGED <<kind, space, rows, made, count, parts, rsvps, raced>>
  BY DEF dbVars
<1>2. req' \in [Requests -> RequestType] /\ \A q \in Requests : req'[q] = IF q = r THEN f ELSE req[q]
  BY DEF IInv, TypeOK, Fill, RequestType
<1>3. TypeOK'
  BY <1>1, <1>2 DEF IInv, TypeOK, RequestType
<1>4. RowInv' /\ CountMatches' /\ OncePerUser'
  BY <1>1 DEF IInv, RowInv, CountMatches, OncePerUser, Exists, Rows
<1>5. \A q \in Requests : Good(req[q])'
  <2> SUFFICES ASSUME NEW q \in Requests PROVE Good(req[q])'
    OBVIOUS
  <2>1. Good(req'[q])
    BY <1>2 DEF IInv
  <2> QED BY <1>1, <2>1 DEF Good, Named, Entitled, Counts, First, Exists
<1> QED BY <1>3, <1>4, <1>5 DEF IInv

(***************************************************************************)
(* A handler that ends without a commit.                                   *)
(***************************************************************************)
LEMMA GivesUp ==
    ASSUME IInv, NEW r \in Requests, End(r), UNCHANGED <<dbVars, raced>>
    PROVE  IInv'
BY FreeIsGood, MovesOn DEF End

(***************************************************************************)
(* Every step preserves the invariant.                                     *)
(***************************************************************************)
LEMMA IInvStep == IInv /\ [Next]_vars => IInv'
<1> SUFFICES ASSUME IInv, [Next]_vars PROVE IInv'
  OBVIOUS
<1> USE CommunitiesAssumption
<1>t. TypeOK /\ RowInv /\ CountMatches /\ OncePerUser /\ \A r \in Requests : Good(req[r])
  BY DEF IInv
<1>r. req \in [Requests -> RequestType]
  BY <1>t DEF TypeOK, RequestType
<1>1. CASE create_channel
  <2>1. /\ kind = "channel" /\ space = "absent" /\ space' = "ready"
        /\ UNCHANGED <<kind, rows, made, count, parts, rsvps, req, raced>>
    BY <1>1 DEF create_channel
  <2>2. TypeOK'
    BY <2>1, <1>t DEF TypeOK
  <2>3. RowInv' /\ OncePerUser'
    BY <2>1, <1>t DEF RowInv, Rows, OncePerUser
  <2>4. CountMatches'
    BY <2>1, <1>t, FS_EmptySet DEF RowInv, Rows, CountMatches
  <2>5. \A q \in Requests : Good(req[q])'
    BY <2>1, <1>t DEF Good, Named, Entitled, Counts, First, Counting
  <2> QED BY <2>2, <2>3, <2>4, <2>5 DEF IInv
<1>2. ASSUME NEW r \in Requests, create_community(r) PROVE IInv'
  <2> DEFINE f == [Free EXCEPT !.pc = "commit", !.op = "create"]
  <2>1. /\ kind = "community" /\ space = "absent" /\ space' = "created"
        /\ req' = [req EXCEPT ![r] = f]
        /\ UNCHANGED <<kind, rows, made, count, parts, rsvps, raced>>
    BY <1>2 DEF create_community, Fill
  <2>2. f \in RequestType /\ f.op = "create" /\ f.pc = "commit"
    BY FreeIsGood DEF RequestType
  <2> HIDE DEF f
  <2>3. req' \in [Requests -> RequestType] /\ \A q \in Requests : req'[q] = IF q = r THEN f ELSE req[q]
    BY <1>r, <2>1, <2>2
  <2>4. TypeOK'
    BY <2>1, <2>3, <1>t DEF TypeOK, RequestType
  <2>5. RowInv' /\ OncePerUser'
    BY <2>1, <1>t DEF RowInv, Rows, OncePerUser
  <2>6. CountMatches'
    BY <2>1, <1>t, FS_EmptySet DEF RowInv, Rows, CountMatches
  <2>7. \A q \in Requests : Good(req[q])'
    BY <2>1, <2>2, <2>3, <1>t DEF Good, Named, Entitled, Counts, First, Counting
  <2> QED BY <2>4, <2>5, <2>6, <2>7 DEF IInv
<1>3. ASSUME NEW r \in Requests, CommitOwner(r) PROVE IInv'
  <2>1. /\ req' = [req EXCEPT ![r] = Free] /\ req[r].op = "create"
        /\ space' = IF space = "created" THEN "ready" ELSE space
        /\ UNCHANGED <<kind, rows, made, count, parts, rsvps, raced>>
    BY <1>3 DEF CommitOwner, End, Fill
  <2>2. req' \in [Requests -> RequestType] /\ \A q \in Requests : req'[q] = IF q = r THEN Free ELSE req[q]
    BY <1>r, <2>1, FreeIsGood
  <2>3. TypeOK'
    BY <2>1, <2>2, <1>t DEF TypeOK, RequestType
  <2>4. RowInv' /\ OncePerUser' /\ CountMatches'
    BY <2>1, <1>t DEF RowInv, Rows, OncePerUser, CountMatches, Exists
  <2>5. \A q \in Requests : Good(req[q])'
    <3> SUFFICES ASSUME NEW q \in Requests PROVE Good(req[q])'
      OBVIOUS
    <3>1. CASE q = r
      BY <2>2, <3>1, FreeIsGood DEF Good, Named, Entitled, Counts, First
    <3>2. CASE q # r
      BY <2>1, <2>2, <3>2, <1>t DEF Good, Named, Entitled, Counts, First, Exists
    <3> QED BY <3>1, <3>2
  <2> QED BY <2>3, <2>4, <2>5 DEF IInv
<1>4. ASSUME NEW r \in Requests, NEW op, NEW u, Arrive(r, op, u),
             \/ op \in {"join", "leave", "rsvp"} /\ u \in Users
             \/ op \in {"delete", "posts", "analytics", "events", "resources"} /\ u = "none",
             kind = "community" => op \notin {"leave", "posts", "analytics"}
      PROVE  IInv'
  <2> DEFINE f == [Free EXCEPT !.pc = "check", !.op = op, !.user = u, !.loaded = count]
  <2>1. Exists /\ Fill(r, f) /\ UNCHANGED <<dbVars, raced>>
    BY <1>4 DEF Arrive
  <2>2. f \in RequestType /\ f.pc = "check" /\ f.op = op /\ f.user = u /\ f.loaded = count
    BY <1>4, <1>t DEF Free, RequestType, TypeOK
  <2> HIDE DEF f
  <2>3. Good(f)
    BY <1>4, <2>1, <2>2 DEF Good, Named, Entitled, Counts, First, Exists, Counting
  <2> QED BY <2>1, <2>2, <2>3, MovesOn
<1>5. ASSUME NEW r \in Requests, Check(r) PROVE IInv'
  <2>1. req[r].pc = "check" /\ UNCHANGED <<dbVars, raced>> /\ Good(req[r]) /\ req[r] \in RequestType
    BY <1>5, <1>t, <1>r DEF Check
  <2>2. CASE ~MayGoOn(r)
    BY <1>5, <2>1, <2>2, GivesUp DEF Check
  <2>3. ASSUME MayGoOn(r), NEW row \in Nat, req[r].op = "leave" => row \in rows[req[r].user],
               Fill(r, [req[r] EXCEPT !.pc = "commit", !.row = row])
        PROVE  IInv'
    <3> DEFINE f == [req[r] EXCEPT !.pc = "commit", !.row = row]
    <3>1. f \in RequestType /\ f.pc = "commit" /\ f.op = req[r].op /\ f.user = req[r].user
          /\ f.loaded = req[r].loaded /\ f.row = row
      BY <2>1 DEF RequestType
    <3> HIDE DEF f
    <3>2. Named(f)
      BY <2>1, <3>1 DEF Good, Named
    <3>3. Entitled(f)
      <4>1. req[r].op \in {"none", "create", "join", "leave", "delete", "rsvp", "posts",
                           "analytics", "events", "resources"}
        BY <2>1 DEF RequestType
      <4>2. space # "absent" /\ (kind = "community" => f.op \notin {"leave", "posts", "analytics"})
        BY <2>1, <3>1 DEF Good, Entitled
      <4>3. ASSUME kind = "community", space = "created"
            PROVE  f.op \notin {"join", "rsvp", "events", "resources"}
        <5>1. parts = {}
          BY <4>3, <1>t DEF RowInv
        <5> QED BY <2>3, <3>1, <4>3, <5>1 DEF MayGoOn, MayJoin, MayAnswer, Allowed
      <4>4. f.op # "none"
        BY <3>1, <2>1 DEF Good, Named
      <4> QED BY <3>1, <4>1, <4>2, <4>3, <4>4 DEF Entitled
    <3>4. Counts(f)
      BY <2>1, <2>3, <3>1 DEF Good, Counts
    <3>5. First(f)
      BY <2>3, <3>1 DEF First, MayGoOn, MayJoin, MayAnswer
    <3>6. Good(f)
      BY <3>2, <3>3, <3>4, <3>5 DEF Good
    <3>7. Fill(r, f)
      BY <2>3 DEF f
    <3> QED BY <2>1, <3>1, <3>6, <3>7, MovesOn
  <2>4. CASE MayGoOn(r) /\ req[r].op = "leave"
    <3>1. PICK row \in rows[req[r].user] : Fill(r, [req[r] EXCEPT !.pc = "commit", !.row = row])
      BY <1>5, <2>4 DEF Check
    <3>2. req[r].user \in Users
      BY <2>1, <2>4 DEF Good, Named
    <3>3. row \in Nat
      BY <3>1, <3>2, <1>t DEF TypeOK
    <3> QED BY <2>3, <2>4, <3>1, <3>3
  <2>5. CASE MayGoOn(r) /\ req[r].op # "leave"
    <3>1. Fill(r, [req[r] EXCEPT !.pc = "commit"])
      BY <1>5, <2>5 DEF Check
    <3>2. req[r].row \in Nat
          /\ [req[r] EXCEPT !.pc = "commit"] = [req[r] EXCEPT !.pc = "commit", !.row = req[r].row]
      BY <2>1 DEF RequestType
    <3> QED BY <2>3, <2>5, <3>1, <3>2
  <2> QED BY <2>2, <2>4, <2>5
<1>6. ASSUME NEW r \in Requests, CommitJoin(r) PROVE IInv'
  <2>1. CASE Gone(r)
    BY <2>1, GivesUp DEF Gone
  <2>2. CASE ~Gone(r)
    <3> DEFINE v == req[r].user
    <3>1. /\ req[r].pc = "commit" /\ req[r].op = "join" /\ Exists /\ made < MaxRows
          /\ made' = made + 1
          /\ rows' = [rows EXCEPT ![v] = @ \cup {made + 1}]
          /\ count' = req[r].loaded + 1
          /\ NoteRace(r) /\ req' = [req EXCEPT ![r] = Free]
          /\ UNCHANGED <<kind, space, parts, rsvps>>
      BY <1>6, <2>2 DEF CommitJoin, End, Fill
    <3>2. Good(req[r]) /\ v \in Users /\ req[r].loaded \in Int
      BY <1>t, <1>r, <3>1 DEF Good, Named, RequestType
    <3> HIDE DEF v
    <3>3. req' \in [Requests -> RequestType] /\ \A q \in Requests : req'[q] = IF q = r THEN Free ELSE req[q]
      BY <1>r, <3>1, FreeIsGood
    <3>4. raced \subseteq raced' /\ raced' \subseteq Users \cup {"count"}
          /\ ("count" \notin raced' => \A q \in Requests \ {r} : req[q].op \notin Counting)
          /\ \A q \in Requests \ {r} : req[q].op = "join" /\ req[q].user = v => v \in raced'
      BY <1>t, <3>1, <3>2 DEF NoteRace, Counting, TypeOK, v
    <3>5. \A u \in Users : rows'[u] = IF u = v THEN rows[u] \cup {made + 1} ELSE rows[u]
      BY <3>1, <1>t DEF TypeOK
    <3>6. TypeOK'
      <4>1. made' \in 0 .. MaxRows
        BY <3>1, <1>t DEF TypeOK
      <4>2. \A u \in Users : rows'[u] \subseteq 1 .. made'
        BY <3>1, <3>5, <1>t DEF TypeOK
      <4>3. rows' \in [Users -> SUBSET (1 .. made')]
        BY <3>1, <4>2, <1>t DEF TypeOK
      <4>4. count' \in Int
        BY <3>1, <3>2
      <4> QED BY <3>1, <3>3, <3>4, <4>1, <4>3, <4>4, <1>t DEF TypeOK, RequestType
    <3>7. made + 1 \notin Rows /\ \A u \in Users : made + 1 \notin rows[u]
      BY <1>t DEF TypeOK, Rows
    <3>8. RowInv'
      <4>1. \A u, w \in Users : u # w => rows'[u] \cap rows'[w] = {}
        BY <3>5, <3>7, <1>t DEF RowInv
      <4>2. space \notin {"absent", "deleted"} /\ ~(kind = "community" /\ space = "created")
        BY <3>1, <3>2 DEF Good, Entitled, Exists
      <4> QED BY <3>1, <4>1, <4>2 DEF RowInv
    <3>9. CountMatches'
      <4>1. Rows' = Rows \cup {made + 1}
        BY <3>2, <3>5 DEF Rows
      <4>2. Cardinality(Rows') = Cardinality(Rows) + 1
        BY <4>1, <3>7, <1>t, FiniteRows, FS_AddElement
      <4>3. "count" \notin raced' => req[r].loaded = count /\ count = Cardinality(Rows)
        BY <3>1, <3>2, <3>4, <1>t DEF Good, Counts, Counting, CountMatches
      <4> QED BY <3>1, <4>2, <4>3 DEF CountMatches
    <3>10. OncePerUser'
      <4> SUFFICES ASSUME NEW u \in Users \ raced'
                   PROVE  Cardinality(rows'[u]) <= 1 /\ rsvps'[u] <= 1
        BY DEF OncePerUser
      <4>1. Cardinality(rows[u]) <= 1 /\ rsvps[u] <= 1
        BY <3>4, <1>t DEF OncePerUser
      <4>2. CASE u = v
        <5>1. rows[u] = {}
          BY <3>1, <3>2, <3>4, <4>2 DEF Good, First, v
        <5>2. rows'[u] = {made + 1}
          BY <5>1, <4>2, <3>5
        <5> QED BY <5>2, <4>1, <3>1, FS_Singleton
      <4> QED BY <4>1, <4>2, <3>1, <3>5
    <3>11. \A q \in Requests : Good(req[q])'
      <4> SUFFICES ASSUME NEW q \in Requests PROVE Good(req[q])'
        OBVIOUS
      <4>1. CASE q = r
        BY <3>3, <4>1, FreeIsGood DEF Good, Named, Entitled, Counts, First
      <4>2. CASE q # r
        <5>1. Good(req[q]) /\ req'[q] = req[q]
          BY <3>3, <4>2, <1>t
        <5>2. Named(req[q])' /\ Entitled(req[q])'
          BY <5>1, <3>1 DEF Good, Named, Entitled
        <5>3. Counts(req[q])'
          BY <5>1, <3>4, <4>2 DEF Counts
        <5>4. First(req[q])'
          BY <5>1, <3>1, <3>4, <3>5, <4>2 DEF Good, First
        <5> QED BY <5>2, <5>3, <5>4 DEF Good
      <4> QED BY <4>1, <4>2
    <3> QED BY <3>6, <3>8, <3>9, <3>10, <3>11 DEF IInv
  <2> QED BY <2>1, <2>2
<1>7. ASSUME NEW r \in Requests, CommitLeave(r) PROVE IInv'
  <2>1. CASE Gone(r)
    BY <2>1, GivesUp DEF Gone
  <2>2. CASE ~Gone(r)
    <3> DEFINE v == req[r].user
               x == req[r].row
    <3>1. /\ req[r].pc = "commit" /\ req[r].op = "leave" /\ Exists
          /\ rows' = [rows EXCEPT ![v] = @ \ {x}]
          /\ count' = req[r].loaded - 1
          /\ NoteRace(r) /\ req' = [req EXCEPT ![r] = Free]
          /\ UNCHANGED <<kind, space, made, parts, rsvps>>
      BY <1>7, <2>2 DEF CommitLeave, End, Fill
    <3>2. Good(req[r]) /\ v \in Users /\ req[r].loaded \in Int
      BY <1>t, <1>r, <3>1 DEF Good, Named, RequestType
    <3> HIDE DEF v, x
    <3>3. req' \in [Requests -> RequestType] /\ \A q \in Requests : req'[q] = IF q = r THEN Free ELSE req[q]
      BY <1>r, <3>1, FreeIsGood
    <3>4. raced \subseteq raced' /\ raced' \subseteq Users \cup {"count"}
          /\ ("count" \notin raced' => \A q \in Requests \ {r} : req[q].op \notin Counting)
      BY <1>t, <3>1 DEF NoteRace, Counting, TypeOK
    <3>5. \A u \in Users : rows'[u] = IF u = v THEN rows[u] \ {x} ELSE rows[u]
      BY <3>1, <1>t DEF TypeOK
    <3>6. TypeOK'
      <4>1. \A u \in Users : rows'[u] \subseteq 1 .. made'
        BY <3>1, <3>5, <1>t DEF TypeOK
      <4>2. rows' \in [Users -> SUBSET (1 .. made')]
        BY <3>1, <4>1, <1>t DEF TypeOK
      <4>3. count' \in Int
        BY <3>1, <3>2
      <4> QED BY <3>1, <3>3, <3>4, <4>2, <4>3, <1>t DEF TypeOK, RequestType
    <3>7. RowInv'
      <4>1. \A u, w \in Users : u # w => rows'[u] \cap rows'[w] = {}
        BY <3>5, <1>t DEF RowInv
      <4>2. space \notin {"absent", "deleted"} /\ ~(kind = "community" /\ space = "created")
        BY <3>1, <3>2 DEF Good, Entitled, Exists
      <4> QED BY <3>1, <4>1, <4>2 DEF RowInv
    <3>8. CountMatches'
      <4> SUFFICES ASSUME "count" \notin raced' PROVE count' = Cardinality(Rows')
        BY DEF CountMatches
      <4>1. req[r].loaded = count /\ count = Cardinality(Rows) /\ x \in rows[v]
        BY <3>1, <3>2, <3>4, <1>t DEF Good, Counts, Counting, CountMatches, v, x
      <4>2. \A u \in Users : u # v => x \notin rows[u]
        BY <4>1, <3>2, <1>t DEF RowInv
      <4>3. Rows' = Rows \ {x} /\ x \in Rows
        BY <4>1, <4>2, <3>2, <3>5 DEF Rows
      <4>4. Cardinality(Rows') = Cardinality(Rows) - 1
        BY <4>3, <1>t, FiniteRows, FS_RemoveElement
      <4> QED BY <3>1, <4>1, <4>4
    <3>9. OncePerUser'
      <4> SUFFICES ASSUME NEW u \in Users \ raced'
                   PROVE  Cardinality(rows'[u]) <= 1 /\ rsvps'[u] <= 1
        BY DEF OncePerUser
      <4>1. Cardinality(rows[u]) <= 1 /\ rsvps[u] <= 1
        BY <3>4, <1>t DEF OncePerUser
      <4>2. IsFiniteSet(rows[u]) /\ rows'[u] \subseteq rows[u] /\ Cardinality(rows[u]) \in Nat
        BY <3>5, <1>t, FiniteRows
      <4>3. Cardinality(rows'[u]) <= Cardinality(rows[u]) /\ Cardinality(rows'[u]) \in Nat
        BY <4>2, FS_Subset, FS_CardinalityType
      <4> QED BY <3>1, <4>1, <4>2, <4>3
    <3>10. \A q \in Requests : Good(req[q])'
      <4> SUFFICES ASSUME NEW q \in Requests PROVE Good(req[q])'
        OBVIOUS
      <4>1. CASE q = r
        BY <3>3, <4>1, FreeIsGood DEF Good, Named, Entitled, Counts, First
      <4>2. CASE q # r
        <5>1. Good(req[q]) /\ req'[q] = req[q]
          BY <3>3, <4>2, <1>t
        <5>2. Named(req[q])' /\ Entitled(req[q])'
          BY <5>1, <3>1 DEF Good, Named, Entitled
        <5>3. Counts(req[q])'
          BY <5>1, <3>4, <4>2 DEF Counts
        <5>4. First(req[q])'
          BY <5>1, <3>1, <3>4, <3>5, <4>2 DEF Good, First
        <5> QED BY <5>2, <5>3, <5>4 DEF Good
      <4> QED BY <4>1, <4>2
    <3> QED BY <3>6, <3>7, <3>8, <3>9, <3>10 DEF IInv
  <2> QED BY <2>1, <2>2
<1>8. ASSUME NEW r \in Requests, CommitAnswer(r) PROVE IInv'
  <2>1. CASE Gone(r)
    BY <2>1, GivesUp DEF Gone
  <2>2. CASE ~Gone(r)
    <3> DEFINE v == req[r].user
    <3>1. /\ req[r].pc = "commit" /\ req[r].op = "rsvp" /\ Exists
          /\ rsvps' = [rsvps EXCEPT ![v] = @ + 1]
          /\ NoteRace(r) /\ req' = [req EXCEPT ![r] = Free]
          /\ UNCHANGED <<kind, space, rows, made, count, parts>>
      BY <1>8, <2>2 DEF CommitAnswer, End, Fill
    <3>2. Good(req[r]) /\ v \in Users /\ req[r].loaded \in Int
      BY <1>t, <1>r, <3>1 DEF Good, Named, RequestType
    <3> HIDE DEF v
    <3>3. req' \in [Requests -> RequestType] /\ \A q \in Requests : req'[q] = IF q = r THEN Free ELSE req[q]
      BY <1>r, <3>1, FreeIsGood
    <3>4. raced \subseteq raced' /\ raced' \subseteq Users \cup {"count"}
          /\ \A q \in Requests \ {r} : req[q].op = "rsvp" /\ req[q].user = v => v \in raced'
      BY <1>t, <3>1, <3>2 DEF NoteRace, Counting, TypeOK, v
    <3>5. \A u \in Users : rsvps'[u] = IF u = v THEN rsvps[u] + 1 ELSE rsvps[u]
      BY <3>1, <1>t DEF TypeOK
    <3>6. TypeOK'
      <4>1. \A u \in Users : rsvps[u] + 1 \in Nat
        BY <1>t DEF TypeOK
      <4>2. rsvps' \in [Users -> Nat]
        BY <3>1, <4>1, <1>t DEF TypeOK
      <4> QED BY <3>1, <3>3, <3>4, <4>2, <1>t DEF TypeOK, RequestType
    <3>7. RowInv'
      BY <3>1, <1>t DEF RowInv, Rows
    <3>8. CountMatches'
      BY <3>1, <3>4, <1>t DEF CountMatches, Rows, Exists
    <3>9. OncePerUser'
      BY <3>1, <3>2, <3>4, <3>5, <1>t DEF OncePerUser, Good, First, v, TypeOK
    <3>10. \A q \in Requests : Good(req[q])'
      <4> SUFFICES ASSUME NEW q \in Requests PROVE Good(req[q])'
        OBVIOUS
      <4>1. CASE q = r
        BY <3>3, <4>1, FreeIsGood DEF Good, Named, Entitled, Counts, First
      <4>2. CASE q # r
        <5>1. Good(req[q]) /\ req'[q] = req[q]
          BY <3>3, <4>2, <1>t
        <5>2. Named(req[q])' /\ Entitled(req[q])'
          BY <5>1, <3>1 DEF Good, Named, Entitled
        <5>3. Counts(req[q])'
          BY <5>1, <3>1, <3>4 DEF Good, Counts, Exists
        <5>4. First(req[q])'
          BY <5>1, <3>1, <3>4, <3>5, <4>2 DEF Good, First
        <5> QED BY <5>2, <5>3, <5>4 DEF Good
      <4> QED BY <4>1, <4>2
    <3> QED BY <3>6, <3>7, <3>8, <3>9, <3>10 DEF IInv
  <2> QED BY <2>1, <2>2
<1>9. ASSUME NEW r \in Requests, CommitPart(r) PROVE IInv'
  <2>1. CASE Gone(r)
    BY <2>1, GivesUp DEF Gone
  <2>2. CASE ~Gone(r)
    <3>1. /\ req[r].pc = "commit" /\ req[r].op \in {"posts", "analytics", "events", "resources"}
          /\ Exists /\ parts' = parts \cup {req[r].op} /\ req' = [req EXCEPT ![r] = Free]
          /\ UNCHANGED <<kind, space, rows, made, count, rsvps, raced>>
      BY <1>9, <2>2 DEF CommitPart, End, Fill
    <3>2. req' \in [Requests -> RequestType] /\ \A q \in Requests : req'[q] = IF q = r THEN Free ELSE req[q]
      BY <1>r, <3>1, FreeIsGood
    <3>3. TypeOK'
      BY <3>1, <3>2, <1>t DEF TypeOK, RequestType
    <3>4. RowInv'
      <4>1. space \notin {"absent", "deleted"} /\ ~(kind = "community" /\ space = "created")
        BY <3>1, <1>t DEF Good, Entitled, Exists
      <4> QED BY <3>1, <4>1, <1>t DEF RowInv
    <3>5. CountMatches' /\ OncePerUser'
      BY <3>1, <1>t DEF CountMatches, OncePerUser, Rows, Exists
    <3>6. \A q \in Requests : Good(req[q])'
      <4> SUFFICES ASSUME NEW q \in Requests PROVE Good(req[q])'
        OBVIOUS
      <4>1. CASE q = r
        BY <3>2, <4>1, FreeIsGood DEF Good, Named, Entitled, Counts, First
      <4>2. CASE q # r
        BY <3>1, <3>2, <4>2, <1>t DEF Good, Named, Entitled, Counts, First, Exists
      <4> QED BY <4>1, <4>2
    <3> QED BY <3>3, <3>4, <3>5, <3>6 DEF IInv
  <2> QED BY <2>1, <2>2
<1>10. ASSUME NEW r \in Requests, CommitDelete(r) PROVE IInv'
  <2>1. CASE UNCHANGED dbVars
    BY <1>10, <2>1, GivesUp DEF CommitDelete
  <2>2. CASE ~UNCHANGED dbVars
    <3>1. /\ space' = "deleted" /\ rows' = [u \in Users |-> {}] /\ parts' = {}
          /\ req' = [req EXCEPT ![r] = Free]
          /\ UNCHANGED <<kind, made, count, rsvps, raced>>
      BY <1>10, <2>2 DEF CommitDelete, End, Fill
    <3>2. req' \in [Requests -> RequestType] /\ \A q \in Requests : req'[q] = IF q = r THEN Free ELSE req[q]
      BY <1>r, <3>1, FreeIsGood
    <3>3. TypeOK'
      BY <3>1, <3>2, <1>t DEF TypeOK, RequestType
    <3>4. RowInv' /\ CountMatches'
      BY <3>1 DEF RowInv, CountMatches, Rows, Exists
    <3>5. OncePerUser'
      BY <3>1, <1>t, FS_EmptySet DEF OncePerUser
    <3>6. \A q \in Requests : Good(req[q])'
      <4> SUFFICES ASSUME NEW q \in Requests PROVE Good(req[q])'
        OBVIOUS
      <4>1. CASE q = r
        BY <3>2, <4>1, FreeIsGood DEF Good, Named, Entitled, Counts, First
      <4>2. CASE q # r
        BY <3>1, <3>2, <4>2, <1>t DEF Good, Named, Entitled, Counts, First, Exists
      <4> QED BY <4>1, <4>2
    <3> QED BY <3>3, <3>4, <3>5, <3>6 DEF IInv
  <2> QED BY <2>1, <2>2
<1>11. ASSUME NEW r \in Requests, Crash(r) PROVE IInv'
  BY <1>11, GivesUp DEF Crash
<1>12. CASE UNCHANGED vars
  <2>1. UNCHANGED <<kind, space, rows, made, count, parts, rsvps, req, raced>>
    BY <1>12 DEF vars
  <2> QED BY <2>1, <1>t DEF IInv, TypeOK, RowInv, CountMatches, OncePerUser, Good, Named,
            Entitled, Counts, First, Exists, Rows
<1>13. CASE Next
  <2>1. CASE create_channel
    BY <1>1, <2>1
  <2>2. ASSUME NEW r \in Requests,
               \/ delete_channel(r) \/ delete_community(r) \/ create_channel_post(r)
               \/ read_channel_analytics(r) \/ create_community_event(r) \/ add_community_resource(r)
        PROVE  IInv'
    BY <1>4, <2>2 DEF delete_channel, delete_community, create_channel_post,
       read_channel_analytics, create_community_event, add_community_resource
  <2>3. ASSUME NEW r \in Requests, NEW u \in Users,
               \/ subscribe_to_channel(r, u) \/ unsubscribe_from_channel(r, u)
               \/ add_community_member(r, u) \/ rsvp_to_community_event(r, u)
        PROVE  IInv'
    BY <1>4, <2>3 DEF subscribe_to_channel, unsubscribe_from_channel, add_community_member,
       rsvp_to_community_event
  <2> QED BY <1>13, <2>1, <2>2, <2>3, <1>2, <1>3, <1>5, <1>6, <1>7, <1>8, <1>9, <1>10, <1>11 DEF Next
<1> QED BY <1>12, <1>13

(***************************************************************************)
(* The invariant holds in every state of a behaviour.                      *)
(***************************************************************************)
THEOREM Invariance == Spec => []IInv
BY IInvInit, IInvStep, PTL DEF Spec

(***************************************************************************)
(* The tables and handlers of channels.py and communities.py keep their    *)
(* types.                                                                  *)
(***************************************************************************)
THEOREM TypeCorrect == Spec => []TypeOK
<1>1. IInv => TypeOK
  BY DEF IInv
<1> QED BY <1>1, Invariance, PTL

(***************************************************************************)
(* subscriber_count and member_count agree with the tables unless two      *)
(* handlers that write the counter overlapped.                             *)
(***************************************************************************)
THEOREM CounterAgrees == Spec => []CountMatches
<1>1. IInv => CountMatches
  BY DEF IInv
<1> QED BY <1>1, Invariance, PTL

(***************************************************************************)
(* A user has two subscriptions, memberships or answers only if two        *)
(* requests for that user overlapped.                                      *)
(***************************************************************************)
THEOREM OneRowPerUser == Spec => []OncePerUser
<1>1. IInv => OncePerUser
  BY DEF IInv
<1> QED BY <1>1, Invariance, PTL

(***************************************************************************)
(* Handlers on their way when a channel or community is deleted add        *)
(* nothing to it.                                                          *)
(***************************************************************************)
THEOREM DeletedLeavesNothing == Spec => []NothingLeft
<1>1. IInv => NothingLeft
  BY DEF IInv, RowInv, NothingLeft
<1> QED BY <1>1, Invariance, PTL

(***************************************************************************)
(* A community without an owner stays empty.                               *)
(***************************************************************************)
THEOREM InterruptedEmpty == Spec => []InterruptedStaysEmpty
<1>1. IInv => InterruptedStaysEmpty
  BY DEF IInv, RowInv, InterruptedStaysEmpty
<1> QED BY <1>1, Invariance, PTL
=============================================================================
