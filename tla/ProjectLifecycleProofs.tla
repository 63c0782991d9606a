------------------------- MODULE ProjectLifecycleProofs -------------------------
(***************************************************************************)
(* Proofs about ProjectLifecycle: what a create has in place when it says  *)
(* "ready", and what a delete leaves, for any number of requests, failures *)
(* and restarts.                                                           *)
(***************************************************************************)
EXTENDS ProjectLifecycle, TLAPS

USE LifecycleAssumption

-----------------------------------------------------------------------------
(* What the steps do, part by part.                                        *)

Does(s, p) ==
    /\ p \in Parts
    /\ p.registry  <=> parts.registry \/ s = "ensure_registry"
    /\ p.schema    <=> s = "create_schema" \/ (parts.schema /\ s # "drop_schema")
    /\ p.catalog   <=> s = "create_catalog" \/ (parts.catalog /\ s # "drop_catalog")
    /\ p.cdc       <=> s = "create_cdc" \/ (parts.cdc /\ s # "drop_catalog")
    /\ p.connector <=> s = "create_connector" \/ (parts.connector /\ s # "drop_connector")
    /\ p.row       <=> s = "persist" \/ (parts.row /\ s # "drop_row")
    /\ p.ledger    <=> parts.ledger /\ s # "drop_ledger"
    /\ p.pub = CASE s = "create_publication" -> "covers"
                 [] s = "drop_publication"   -> "none"
                 [] s = "drop_schema" /\ parts.pub = "covers" -> "empty"
                 [] OTHER -> parts.pub
    /\ p.slot = CASE s = "drop_slot" -> "none"
                  [] s = "look_at_slot" /\ parts.slot = "active" -> "inactive"
                  [] OTHER -> parts.slot

LEMMA EffectOf ==
    /\ Effect["ensure_registry"] = EnsureRegistry
    /\ Effect["create_schema"] = CreateSchema
    /\ Effect["create_catalog"] = CreateCatalog
    /\ Effect["create_cdc"] = CreateCdc
    /\ Effect["find_publication"] = parts
    /\ Effect["create_publication"] = CreatePublication
    /\ Effect["create_connector"] = CreateConnector
    /\ Effect["persist"] = Persist
    /\ Effect["drop_connector"] = DropConnector
    /\ Effect["drop_publication"] = DropPublication
    /\ Effect["look_at_slot"] = KickWalsender
    /\ Effect["drop_slot"] = DropSlot
    /\ Effect["drop_catalog"] = DropCatalog
    /\ Effect["drop_schema"] = DropSchema
    /\ Effect["drop_row"] = DropRow
    /\ Effect["drop_ledger"] = DropLedger
BY DEF Effect

LEMMA EffectDoes ==
    ASSUME parts \in Parts, NEW s \in Steps
    PROVE  Does(s, Effect[s])
<1> USE EffectOf DEF Does, Parts
<1>1. CASE s = "ensure_registry"
  BY <1>1 DEF EnsureRegistry
<1>2. CASE s = "create_schema"
  BY <1>2 DEF CreateSchema
<1>3. CASE s = "create_catalog"
  BY <1>3 DEF CreateCatalog
<1>4. CASE s = "create_cdc"
  BY <1>4 DEF CreateCdc
<1>5. CASE s = "find_publication"
  BY <1>5
<1>6. CASE s = "create_publication"
  BY <1>6 DEF CreatePublication
<1>7. CASE s = "create_connector"
  BY <1>7 DEF CreateConnector
<1>8. CASE s = "persist"
  BY <1>8 DEF Persist
<1>9. CASE s = "drop_connector"
  BY <1>9 DEF DropConnector
<1>10. CASE s = "drop_publication"
  BY <1>10 DEF DropPublication
<1>11. CASE s = "look_at_slot"
  BY <1>11 DEF KickWalsender
<1>12. CASE s = "drop_slot"
  BY <1>12 DEF DropSlot
<1>13. CASE s = "drop_catalog"
  BY <1>13 DEF DropCatalog
<1>14. CASE s = "drop_schema"
  BY <1>14 DEF DropSchema
<1>15. CASE s = "drop_row"
  BY <1>15 DEF DropRow
<1>16. CASE s = "drop_ledger"
  BY <1>16 DEF DropLedger
<1> QED
  BY <1>1, <1>2, <1>3, <1>4, <1>5, <1>6, <1>7, <1>8, <1>9, <1>10, <1>11, <1>12, <1>13,
     <1>14, <1>15, <1>16 DEF Steps, CreateSteps, DeleteSteps

\* Where a request goes on when the step returns.
LEMMA ThenOf ==
    ASSUME NEW k
    PROVE  /\ k.at = "ensure_registry" => Then(k) = "create_schema"
           /\ k.at = "create_schema" => Then(k) = "create_catalog"
           /\ k.at = "create_catalog" => Then(k) = "create_cdc"
           /\ k.at = "create_cdc" => Then(k) = "find_publication"
           /\ k.at = "find_publication" => Then(k) = UnlessPublished
           /\ k.at = "create_publication" => Then(k) = "create_connector"
           /\ k.at = "create_connector" => Then(k) = "persist"
           /\ k.at = "persist" => Then(k) = "idle"
           /\ k.at = "drop_connector" => Then(k) = "drop_publication"
           /\ k.at = "drop_publication" => Then(k) = "look_at_slot"
           /\ k.at = "look_at_slot" => Then(k) = AfterSlot(k)
           /\ k.at = "drop_slot" => Then(k) = "drop_catalog"
           /\ k.at = "drop_catalog" => Then(k) = "drop_schema"
           /\ k.at = "drop_schema" => Then(k) = "drop_row"
           /\ k.at = "drop_row" => Then(k) = "drop_ledger"
           /\ k.at = "drop_ledger" => Then(k) = "idle"
BY DEF Then

\* ... and when it raises.
LEMMA OtherwiseOf ==
    ASSUME NEW k
    PROVE  /\ k.at \in CreateSteps => Otherwise(k) = "idle"
           /\ k.at = "drop_connector" => Otherwise(k) = "drop_publication"
           /\ k.at \in {"drop_publication", "look_at_slot", "drop_slot"}
                => Otherwise(k) = "drop_catalog"
           /\ k.at = "drop_catalog" => Otherwise(k) = "drop_schema"
           /\ k.at = "drop_schema" => Otherwise(k) = "drop_row"
           /\ k.at \in {"drop_row", "drop_ledger"} => Otherwise(k) = "idle"
BY DEF Otherwise, CreateSteps

-----------------------------------------------------------------------------
(* The inductive invariant.                                                *)

\* Requests in progress together have come across each other.
Meeting == \A c, d \in Running : c # d => KindOf(call[d]) \in call[c].met

\* What a create k has laid so far is in place in p.
Laid(k, p) ==
    k.at \in CreateSteps =>
      /\ k.at # "ensure_registry" => p.registry
      /\ k.failed \subseteq {"create_connector"}
      /\ "delete" \notin k.met =>
           /\ p.pub = "empty" => "leftover" \in k.met
           /\ k.at \notin {"ensure_registry", "create_schema"} => p.schema
           /\ k.at \notin {"ensure_registry", "create_schema", "create_catalog"}
                => p.catalog
           /\ k.at \in {"find_publication", "create_publication", "create_connector",
                        "persist"} => p.cdc
           /\ k.at = "create_publication" /\ "create" \notin k.met => p.pub = "none"
           /\ k.at \in {"create_connector", "persist"} => p.pub # "none"
           /\ k.at = "persist" => p.connector \/ "create_connector" \in k.failed

\* What a delete k has removed so far, or failed to, is gone from p.
Gone(k, p) ==
    k.at \in DeleteSteps /\ "create" \notin k.met =>
      /\ k.at # "drop_connector" /\ p.connector => "drop_connector" \in k.failed
      /\ k.at \notin {"drop_connector", "drop_publication"} /\ p.pub # "none"
           => "drop_publication" \in k.failed
      /\ k.at \in BehindSlot /\ p.slot # "none"
           => \/ k.failed \cap {"drop_publication", "look_at_slot", "drop_slot"} # {}
              \/ k.met \cap {"exhausted", "late"} # {}
      /\ k.at \in {"drop_schema", "drop_row", "drop_ledger"} /\ (p.catalog \/ p.cdc)
           => "drop_catalog" \in k.failed
      /\ k.at \in {"drop_row", "drop_ledger"} /\ p.schema => "drop_schema" \in k.failed
      /\ k.at = "drop_ledger" => ~p.row

LifecycleInv ==
    /\ TypeOK
    /\ Meeting
    /\ \A c \in Running : Laid(call[c], parts) /\ Gone(call[c], parts)

-----------------------------------------------------------------------------
(* Requests and their records.                                             *)

LEMMA StepKinds == CreateSteps \cap DeleteSteps = {} /\ "idle" \notin Steps
BY DEF Steps, CreateSteps, DeleteSteps

LEMMA IdleRecord == Idle \in CallRecords
BY DEF Idle, CallRecords

LEMMA SomePublication == UnlessPublished \in {"create_publication", "create_connector"}
BY DEF UnlessPublished

LEMMA SomeSlot ==
    ASSUME NEW k
    PROVE  AfterSlot(k) \in {"drop_slot", "look_at_slot", "drop_catalog"}
BY DEF AfterSlot

\* A request stays what it is until it is answered.
LEMMA ThenKind ==
    ASSUME NEW k, k.at \in Steps
    PROVE  /\ k.at \in CreateSteps => Then(k) \in CreateSteps \cup {"idle"}
           /\ k.at \in DeleteSteps => Then(k) \in DeleteSteps \cup {"idle"}
           /\ k.at \in CreateSteps => Otherwise(k) = "idle"
           /\ k.at \in DeleteSteps => Otherwise(k) \in DeleteSteps \cup {"idle"}
BY ThenOf, OtherwiseOf, SomePublication, SomeSlot DEF Steps, CreateSteps, DeleteSteps

LEMMA MeetsRecord ==
    ASSUME NEW k \in CallRecords, NEW who \in Encounters
    PROVE  /\ Meets(k, who) \in CallRecords
           /\ Meets(k, who).at = k.at /\ Meets(k, who).failed = k.failed
           /\ Meets(k, who).met = k.met \cup {who}
BY DEF Meets, CallRecords

LEMMA GotoRecord ==
    ASSUME NEW k \in CallRecords, NEW to \in Steps \cup {"idle"}
    PROVE  /\ Goto(k, to) \in CallRecords
           /\ Goto(k, to).at = to
           /\ to # "idle" => Goto(k, to).met = k.met /\ Goto(k, to).failed = k.failed
<1>1. 0 \in 0..(MaxKicks - 1)
  OBVIOUS
<1> QED
  BY <1>1, IdleRecord DEF Goto, Idle, CallRecords

\* What the step of a request makes of it.
GoneOn(k, m) ==
    /\ m \in CallRecords
    /\ m.at = Then(k)
    /\ m.at # "idle" => /\ m.failed = k.failed
                        /\ m.met = k.met \cup (IF LastKick(k) THEN {"exhausted"} ELSE {})

LEMMA GoesOnRecord ==
    ASSUME NEW k \in CallRecords, k.at \in Steps
    PROVE  GoneOn(k, GoesOn(k))
<1>0. Then(k) \in Steps \cup {"idle"} /\ "idle" \notin Steps
  BY ThenKind, StepKinds DEF Steps
<1>1. CASE k.at = "look_at_slot" /\ Then(k) = k.at
  <2>1. AfterSlot(k) = "look_at_slot"
    BY <1>1, ThenOf
  <2>2. CountKick(k) < MaxKicks
    BY <2>1 DEF AfterSlot, KickAgain
  <2>3. CountKick(k) \in 0..(MaxKicks - 1)
    BY <2>2 DEF CountKick, CallRecords
  <2>4. ~LastKick(k)
    BY <2>2 DEF LastKick, CountKick
  <2> QED
    BY <1>1, <2>3, <2>4 DEF GoesOn, GoneOn, CallRecords
<1>2. CASE ~(k.at = "look_at_slot" /\ Then(k) = k.at)
  <2> DEFINE j == IF LastKick(k) THEN Meets(k, "exhausted") ELSE k
  <2>1. /\ j \in CallRecords /\ j.failed = k.failed
        /\ j.met = k.met \cup (IF LastKick(k) THEN {"exhausted"} ELSE {})
    BY MeetsRecord DEF Encounters
  <2>2. GoesOn(k) = Goto(j, Then(k))
    BY <1>2 DEF GoesOn
  <2> HIDE DEF j
  <2>3. /\ Goto(j, Then(k)) \in CallRecords /\ Goto(j, Then(k)).at = Then(k)
        /\ Then(k) # "idle" => /\ Goto(j, Then(k)).met = j.met
                               /\ Goto(j, Then(k)).failed = j.failed
    BY <1>0, <2>1, GotoRecord
  <2> QED
    BY <2>1, <2>2, <2>3 DEF GoneOn
<1> QED
  BY <1>1, <1>2

Failed(k, m) ==
    /\ m \in CallRecords
    /\ m.at = Otherwise(k)
    /\ m.at # "idle" => m.met = k.met /\ m.failed = k.failed \cup {k.at}

LEMMA FailsRecord ==
    ASSUME NEW k \in CallRecords, k.at \in Steps
    PROVE  Failed(k, Fails(k))
<1>1. [k EXCEPT !.failed = @ \cup {k.at}] \in CallRecords
  BY DEF CallRecords
<1>2. Otherwise(k) \in Steps \cup {"idle"}
  BY ThenKind DEF Steps
<1> QED
  BY <1>1, <1>2, GotoRecord DEF Fails, Failed, CallRecords

-----------------------------------------------------------------------------
(* A request's own steps.                                                  *)

LEMMA CreateGoesOn ==
    ASSUME NEW k \in CallRecords, k.at \in CreateSteps, NEW p, NEW m,
           Does(k.at, p), GoneOn(k, m), Laid(k, parts), m.at # "idle"
    PROVE  Laid(m, p)
<1>0. m.at = Then(k) /\ m.met = k.met /\ m.failed = k.failed
  BY DEF GoneOn, LastKick, CreateSteps
<1> USE <1>0, ThenOf, SomePublication DEF Does, Laid, CreateSteps
<1>1. CASE k.at = "ensure_registry"
  BY <1>1
<1>2. CASE k.at = "create_schema"
  BY <1>2
<1>3. CASE k.at = "create_catalog"
  BY <1>3
<1>4. CASE k.at = "create_cdc"
  BY <1>4
<1>5. CASE k.at = "find_publication"
  BY <1>5 DEF UnlessPublished
<1>6. CASE k.at = "create_publication"
  BY <1>6
<1>7. CASE k.at = "create_connector"
  BY <1>7
<1>8. CASE k.at = "persist"
  BY <1>8
<1> QED
  BY <1>1, <1>2, <1>3, <1>4, <1>5, <1>6, <1>7, <1>8 DEF CreateSteps

\* A delete goes on behind a slot when there is none, or no attempt is left.
LEMMA SlotLeft ==
    ASSUME NEW k \in CallRecords, k.at = "look_at_slot", parts \in Parts,
           AfterSlot(k) = "drop_catalog"
    PROVE  parts.slot = "none" \/ LastKick(k)
<1> SUFFICES ASSUME parts.slot # "none" PROVE LastKick(k)
  OBVIOUS
<1>1. parts.slot = "active"
  BY DEF AfterSlot, Parts
<1>2. ~KickAgain(k)
  BY DEF AfterSlot
<1>3. k.kicks \in 0..(MaxKicks - 1)
  BY DEF CallRecords
<1> QED
  BY <1>1, <1>2, <1>3 DEF KickAgain, CountKick, LastKick

LEMMA DeleteGoesOn ==
    ASSUME NEW k \in CallRecords, k.at \in DeleteSteps, NEW p, NEW m,
           Does(k.at, p), GoneOn(k, m), Gone(k, parts), m.at # "idle", parts \in Parts
    PROVE  Gone(m, p)
<1> USE ThenOf DEF Does, GoneOn, Gone, DeleteSteps, BehindSlot
<1>1. CASE k.at = "drop_connector"
  BY <1>1
<1>2. CASE k.at = "drop_publication"
  BY <1>2
<1>3. CASE k.at = "look_at_slot"
  <2>1. m.at = "drop_catalog" => parts.slot = "none" \/ LastKick(k)
    BY <1>3, SlotLeft
  <2>2. m.at \in {"drop_slot", "look_at_slot", "drop_catalog"}
    BY <1>3, SomeSlot
  <2>3. p.slot # "none" => parts.slot # "none"
    BY <1>3
  <2> QED
    BY <1>3, <2>1, <2>2, <2>3
<1>4. CASE k.at = "drop_slot"
  BY <1>4
<1>5. CASE k.at = "drop_catalog"
  BY <1>5
<1>6. CASE k.at = "drop_schema"
  BY <1>6
<1>7. CASE k.at = "drop_row"
  BY <1>7
<1>8. CASE k.at = "drop_ledger"
  BY <1>8
<1> QED
  BY <1>1, <1>2, <1>3, <1>4, <1>5, <1>6, <1>7, <1>8 DEF DeleteSteps

\* A step of a delete that raises, done or not.
LEMMA DeleteFails ==
    ASSUME NEW k \in CallRecords, k.at \in DeleteSteps, NEW p, NEW m,
           Does(k.at, p) \/ (p = parts /\ parts \in Parts), Failed(k, m), Gone(k, parts),
           m.at # "idle"
    PROVE  Gone(m, p)
<1> USE OtherwiseOf DEF Does, Failed, Gone, DeleteSteps, BehindSlot
<1>1. CASE k.at = "drop_connector"
  BY <1>1
<1>2. CASE k.at \in {"drop_publication", "look_at_slot", "drop_slot"}
  BY <1>2
<1>3. CASE k.at = "drop_catalog"
  BY <1>3
<1>4. CASE k.at = "drop_schema"
  BY <1>4
<1>5. CASE k.at \in {"drop_row", "drop_ledger"}
  BY <1>5
<1> QED
  BY <1>1, <1>2, <1>3, <1>4, <1>5 DEF DeleteSteps

\* A step that failed without being seen to goes on with nothing done.
Overlooked(k, m) ==
    /\ m \in CallRecords
    /\ m.at = Then(k) /\ m.met = k.met /\ m.failed = k.failed \cup {k.at}

LEMMA OverlookedRecord ==
    ASSUME NEW k \in CallRecords, k.at \in Unseen
    PROVE  Overlooked(k, Overlooks(k))
<1>1. k.at \in Steps /\ Then(k) # "idle" /\ k.failed \cup {k.at} \subseteq Steps
  BY ThenOf DEF Unseen, Steps, CreateSteps, DeleteSteps, CallRecords
<1>2. GoneOn(k, GoesOn(k)) /\ GoesOn(k).at # "idle" /\ ~LastKick(k)
  BY <1>1, GoesOnRecord DEF GoneOn, LastKick, Unseen
<1>3. GoesOn(k).met = k.met /\ GoesOn(k).failed = k.failed /\ GoesOn(k).at = Then(k)
      /\ GoesOn(k) \in CallRecords
  BY <1>2 DEF GoneOn
<1> QED
  BY <1>1, <1>3 DEF Overlooked, Overlooks, CallRecords

LEMMA OverlookedKeeps ==
    ASSUME NEW k \in CallRecords, k.at \in Unseen, NEW m, Overlooked(k, m),
           Laid(k, parts), Gone(k, parts)
    PROVE  Laid(m, parts) /\ Gone(m, parts)
<1> USE ThenOf DEF Unseen, Overlooked
<1>1. CASE k.at = "create_connector"
  BY <1>1 DEF Laid, Gone, CreateSteps, DeleteSteps
<1>2. CASE k.at = "drop_connector"
  BY <1>2 DEF Laid, Gone, CreateSteps, DeleteSteps, BehindSlot
<1>3. CASE k.at = "drop_catalog"
  BY <1>3 DEF Laid, Gone, CreateSteps, DeleteSteps, BehindSlot
<1> QED
  BY <1>1, <1>2, <1>3

-----------------------------------------------------------------------------
(* What others do.                                                         *)

\* A create only notices what deletes do, and another create that publishes.
LEMMA OtherStepLaid ==
    ASSUME NEW k \in CallRecords, NEW s \in Steps, NEW p, Does(s, p),
           s \in CreateSteps => "create" \in k.met,
           s \in DeleteSteps => "delete" \in k.met,
           Laid(k, parts)
    PROVE  Laid(k, p)
<1>1. CASE s \in DeleteSteps
  BY <1>1, StepKinds DEF Laid, Does
<1>2. CASE s \in CreateSteps
  <2>1. /\ parts.registry => p.registry
        /\ parts.schema => p.schema
        /\ parts.catalog => p.catalog
        /\ parts.cdc => p.cdc
        /\ parts.connector => p.connector
        /\ parts.pub # "none" => p.pub # "none"
        /\ p.pub = "empty" => parts.pub = "empty"
    BY <1>2 DEF Does, CreateSteps
  <2> QED
    BY <1>2, <2>1 DEF Laid
<1> QED
  BY <1>1, <1>2 DEF Steps

LEMMA OtherStepGone ==
    ASSUME NEW k \in CallRecords, NEW s \in Steps, NEW p, Does(s, p),
           s \in CreateSteps => "create" \in k.met,
           Gone(k, parts)
    PROVE  Gone(k, p)
<1>1. CASE s \in CreateSteps
  BY <1>1 DEF Gone
<1>2. CASE s \in DeleteSteps
  <2>1. /\ p.schema => parts.schema
        /\ p.catalog => parts.catalog
        /\ p.cdc => parts.cdc
        /\ p.connector => parts.connector
        /\ p.row => parts.row
        /\ p.pub # "none" => parts.pub # "none"
        /\ p.slot # "none" => parts.slot # "none"
    BY <1>2 DEF Does, DeleteSteps
  <2> QED
    BY <2>1 DEF Gone
<1> QED
  BY <1>1, <1>2 DEF Steps

\* Debezium, listings and reverse-sync requests touch the registry, the slot
\* and the ledger only.
Outside(p) ==
    /\ p \in Parts
    /\ parts.registry => p.registry
    /\ p.schema = parts.schema /\ p.catalog = parts.catalog /\ p.cdc = parts.cdc
    /\ p.pub = parts.pub /\ p.connector = parts.connector /\ p.row = parts.row

LEMMA OutsideKeeps ==
    ASSUME NEW k, NEW p, Outside(p), Laid(k, parts), Gone(k, parts),
           k.at \in BehindSlot /\ p.slot # "none" => parts.slot # "none" \/ "late" \in k.met
    PROVE  Laid(k, p) /\ Gone(k, p)
<1>1. Laid(k, p)
  BY DEF Outside, Laid
<1>2. Gone(k, p)
  BY DEF Outside, Gone
<1> QED
  BY <1>1, <1>2

\* To come across somebody takes nothing back.
LEMMA MeetsKeeps ==
    ASSUME NEW k \in CallRecords, NEW who \in Encounters, Laid(k, parts), Gone(k, parts)
    PROVE  Laid(Meets(k, who), parts) /\ Gone(Meets(k, who), parts)
<1>1. Laid(Meets(k, who), parts)
  BY MeetsRecord DEF Laid
<1>2. Gone(Meets(k, who), parts)
  BY MeetsRecord DEF Gone
<1> QED
  BY <1>1, <1>2

-----------------------------------------------------------------------------
(* The invariant is kept.                                                  *)

\* The other requests, when c makes the step s or fails to.
LEMMA OthersKeep ==
    ASSUME LifecycleInv, NEW c \in Running, NEW d \in Running, c # d,
           NEW p, p = parts \/ Does(call[c].at, p)
    PROVE  Laid(call[d], p) /\ Gone(call[d], p)
<1>1. /\ call[c].at \in Steps /\ call[d] \in CallRecords
      /\ Laid(call[d], parts) /\ Gone(call[d], parts)
  BY DEF LifecycleInv, TypeOK, Running
<1>2. /\ call[c].at \in CreateSteps => "create" \in call[d].met
      /\ call[c].at \in DeleteSteps => "delete" \in call[d].met
  BY <1>1, StepKinds DEF LifecycleInv, Meeting, KindOf
<1> QED
  BY <1>1, <1>2, OtherStepLaid, OtherStepGone

\* A request that goes on keeps its kind, and what it came across.
Moved(k, m, p) ==
    /\ m \in CallRecords
    /\ m.at # "idle" =>
         /\ KindOf(m) = KindOf(k) /\ k.met \subseteq m.met
         /\ m.at \in DeleteSteps <=> k.at \in DeleteSteps
         /\ Laid(m, p) /\ Gone(m, p)

LEMMA MoveKeeps ==
    ASSUME LifecycleInv, NEW c \in Running, call' = [call EXCEPT ![c] = call'[c]],
           Moved(call[c], call'[c], parts'),
           parts' = parts \/ Does(call[c].at, parts')
    PROVE  /\ parts' \in Parts /\ call' \in [Calls -> CallRecords]
           /\ Meeting'
           /\ \A d \in Running' : Laid(call'[d], parts') /\ Gone(call'[d], parts')
<1>1. /\ c \in Calls /\ Running' \subseteq Running
      /\ \A d \in Running' : d # c => call'[d] = call[d]
      /\ c \in Running' => call'[c].at \in Steps /\ call'[c].at # "idle"
  BY StepKinds DEF LifecycleInv, TypeOK, Running
<1>2. parts' \in Parts /\ call' \in [Calls -> CallRecords]
  BY DEF LifecycleInv, TypeOK, Moved, Does, Running
<1>3. Meeting'
  <2> SUFFICES ASSUME NEW d \in Running', NEW e \in Running', d # e
               PROVE  KindOf(call'[e]) \in call'[d].met
    BY DEF Meeting
  <2>1. KindOf(call[e]) \in call[d].met
    BY <1>1 DEF LifecycleInv, Meeting
  <2>2. call[d].met \subseteq call'[d].met /\ KindOf(call'[e]) = KindOf(call[e])
    BY <1>1 DEF Moved
  <2> QED
    BY <2>1, <2>2
<1>4. ASSUME NEW d \in Running'
      PROVE  Laid(call'[d], parts') /\ Gone(call'[d], parts')
  <2>1. CASE d = c
    BY <1>1, <2>1 DEF Moved
  <2>2. CASE d # c
    BY <1>1, <2>2, OthersKeep
  <2> QED
    BY <2>1, <2>2
<1> QED
  BY <1>2, <1>3, <1>4

LEMMA KindKept ==
    ASSUME NEW k, NEW m, k.at \in Steps,
           m.at \in {Then(k), Otherwise(k)}, m.at # "idle"
    PROVE  /\ KindOf(m) = KindOf(k)
           /\ m.at \in DeleteSteps <=> k.at \in DeleteSteps
           /\ m.at \in Steps
BY ThenKind, StepKinds DEF KindOf, Steps

\* What c knows of itself.
LEMMA Own ==
    ASSUME LifecycleInv, NEW c \in Running
    PROVE  /\ parts \in Parts
           /\ call[c] \in CallRecords /\ call[c].at \in Steps
           /\ Laid(call[c], parts) /\ Gone(call[c], parts)
           /\ Does(call[c].at, Effect[call[c].at])
BY EffectDoes DEF LifecycleInv, TypeOK, Running

LEMMA StepMoves ==
    ASSUME LifecycleInv, NEW c \in Calls, Step(c)
    PROVE  /\ call' = [call EXCEPT ![c] = call'[c]]
           /\ parts' = parts \/ Does(call[c].at, parts')
           /\ Moved(call[c], call'[c], parts')
<1>0. c \in Running /\ c \in DOMAIN call
  BY DEF Step, LifecycleInv, TypeOK
<1>1. CASE call[c].at \in Refused
  <2>1. call' = [call EXCEPT ![c] = Fails(call[c])] /\ parts' = parts
    BY <1>1 DEF Step
  <2>2. call'[c] = Fails(call[c])
    BY <1>0, <2>1
  <2>3. Failed(call[c], call'[c])
    BY <1>0, <2>2, Own, FailsRecord
  <2>4. Moved(call[c], call'[c], parts')
    <3> SUFFICES ASSUME call'[c].at # "idle"
                 PROVE  Moved(call[c], call'[c], parts')
      BY <2>3 DEF Moved, Failed
    <3>1. call[c].at \in DeleteSteps
      BY <1>0, <2>3, Own, ThenKind DEF Failed, Steps
    <3>2. Gone(call'[c], parts')
      BY <1>0, <2>1, <2>3, <3>1, Own, DeleteFails
    <3>3. /\ KindOf(call'[c]) = KindOf(call[c])
          /\ call'[c].at \in DeleteSteps
      BY <1>0, <2>3, <3>1, Own, KindKept DEF Failed
    <3>4. Laid(call'[c], parts')
      BY <3>3, StepKinds DEF Laid
    <3> QED
      BY <2>3, <3>1, <3>2, <3>3, <3>4 DEF Moved, Failed
  <2> QED
    BY <2>1, <2>2, <2>4
<1>2. CASE call[c].at \notin Refused
  <2>1. call' = [call EXCEPT ![c] = GoesOn(call[c])] /\ parts' = Effect[call[c].at]
    BY <1>2 DEF Step
  <2>2. call'[c] = GoesOn(call[c])
    BY <1>0, <2>1
  <2>3. GoneOn(call[c], call'[c])
    BY <1>0, <2>2, Own, GoesOnRecord
  <2>4. Does(call[c].at, parts')
    BY <1>0, <2>1, Own
  <2>5. Moved(call[c], call'[c], parts')
    <3> SUFFICES ASSUME call'[c].at # "idle"
                 PROVE  Moved(call[c], call'[c], parts')
      BY <2>3 DEF Moved, GoneOn
    <3>1. /\ KindOf(call'[c]) = KindOf(call[c])
          /\ call'[c].at \in DeleteSteps <=> call[c].at \in DeleteSteps
          /\ call'[c].at \in Steps
      BY <1>0, <2>3, Own, KindKept DEF GoneOn
    <3>2. CASE call[c].at \in CreateSteps
      <4>1. Laid(call'[c], parts')
        BY <1>0, <2>3, <2>4, <3>2, Own, CreateGoesOn
      <4>2. Gone(call'[c], parts')
        BY <3>1, <3>2, StepKinds DEF Gone
      <4> QED
        BY <2>3, <3>1, <4>1, <4>2 DEF Moved, GoneOn
    <3>3. CASE call[c].at \in DeleteSteps
      <4>1. Gone(call'[c], parts')
        BY <1>0, <2>3, <2>4, <3>3, Own, DeleteGoesOn
      <4>2. Laid(call'[c], parts')
        BY <3>1, <3>3, StepKinds DEF Laid
      <4> QED
        BY <2>3, <3>1, <4>1, <4>2 DEF Moved, GoneOn
    <3> QED
      BY <1>0, <3>2, <3>3, Own DEF Steps
  <2> QED
    BY <2>1, <2>2, <2>4, <2>5
<1> QED
  BY <1>1, <1>2

LEMMA FailedStepMoves ==
    ASSUME LifecycleInv, NEW c \in Calls, StepFails(c)
    PROVE  /\ call' = [call EXCEPT ![c] = call'[c]]
           /\ parts' = parts \/ Does(call[c].at, parts')
           /\ Moved(call[c], call'[c], parts')
<1>0. c \in Running /\ c \in DOMAIN call
  BY DEF StepFails, LifecycleInv, TypeOK
<1>1. /\ call' = [call EXCEPT ![c] = Fails(call[c])]
      /\ parts' = parts \/ parts' = Effect[call[c].at]
  BY DEF StepFails
<1>2. call'[c] = Fails(call[c])
  BY <1>0, <1>1
<1>3. Failed(call[c], call'[c])
  BY <1>0, <1>2, Own, FailsRecord
<1>4. parts' = parts \/ Does(call[c].at, parts')
  BY <1>0, <1>1, Own
<1>5. Moved(call[c], call'[c], parts')
  <2> SUFFICES ASSUME call'[c].at # "idle"
               PROVE  Moved(call[c], call'[c], parts')
    BY <1>3 DEF Moved, Failed
  <2>1. call[c].at \in DeleteSteps
    BY <1>0, <1>3, Own, ThenKind DEF Failed, Steps
  <2>2. Gone(call'[c], parts')
    BY <1>0, <1>3, <1>4, <2>1, Own, DeleteFails
  <2>3. /\ KindOf(call'[c]) = KindOf(call[c])
        /\ call'[c].at \in DeleteSteps
    BY <1>0, <1>3, <2>1, Own, KindKept DEF Failed
  <2>4. Laid(call'[c], parts')
    BY <2>3, StepKinds DEF Laid
  <2> QED
    BY <1>3, <2>1, <2>2, <2>3, <2>4 DEF Moved, Failed
<1> QED
  BY <1>1, <1>2, <1>4, <1>5

LEMMA UnseenStepMoves ==
    ASSUME LifecycleInv, NEW c \in Calls, StepFailsUnseen(c)
    PROVE  /\ call' = [call EXCEPT ![c] = call'[c]]
           /\ parts' = parts
           /\ Moved(call[c], call'[c], parts')
<1>0. c \in Running /\ c \in DOMAIN call /\ call[c].at \in Unseen
  BY DEF StepFailsUnseen, LifecycleInv, TypeOK
<1>1. /\ call' = [call EXCEPT ![c] = Overlooks(call[c])]
      /\ parts' = parts
  BY DEF StepFailsUnseen
<1>2. call'[c] = Overlooks(call[c])
  BY <1>0, <1>1
<1>3. Overlooked(call[c], call'[c])
  BY <1>0, <1>2, Own, OverlookedRecord
<1>4. Laid(call'[c], parts') /\ Gone(call'[c], parts')
  BY <1>0, <1>1, <1>3, Own, OverlookedKeeps
<1>5. call'[c].at # "idle" => /\ KindOf(call'[c]) = KindOf(call[c])
                              /\ call'[c].at \in DeleteSteps <=> call[c].at \in DeleteSteps
  BY <1>0, <1>3, Own, KindKept DEF Overlooked
<1> QED
  BY <1>1, <1>2, <1>3, <1>4, <1>5 DEF Moved, Overlooked

\* The bounds.
Bounded ==
    /\ begun \in 0..MaxBegun
    /\ faults \in Nat /\ crashes \in Nat /\ faults + crashes <= MaxTrouble

LEMMA RequestKeeps ==
    ASSUME LifecycleInv, NEW c \in Calls, Step(c) \/ StepFails(c) \/ StepFailsUnseen(c)
    PROVE  LifecycleInv'
<1>1. c \in Running /\ task' = task
  BY DEF Step, StepFails, StepFailsUnseen
<1>2. Bounded'
  BY DEF Step, StepFails, StepFailsUnseen, Fault, Trouble, LifecycleInv, TypeOK, Bounded
<1>3. /\ call' = [call EXCEPT ![c] = call'[c]]
      /\ parts' = parts \/ Does(call[c].at, parts')
      /\ Moved(call[c], call'[c], parts')
  BY StepMoves, FailedStepMoves, UnseenStepMoves
<1>4. /\ parts' \in Parts /\ call' \in [Calls -> CallRecords]
      /\ Meeting'
      /\ \A d \in Running' : Laid(call'[d], parts') /\ Gone(call'[d], parts')
  BY <1>1, <1>3, MoveKeeps
<1>5. TypeOK'
  BY <1>1, <1>2, <1>4 DEF TypeOK, Bounded, LifecycleInv
<1> QED
  BY <1>4, <1>5 DEF LifecycleInv

LEMMA BeginKeeps ==
    ASSUME LifecycleInv, NEW c \in Calls, NEW kind \in {"create", "delete"}, Begin(c, kind)
    PROVE  LifecycleInv'
<1> DEFINE first == IF kind = "create" THEN "ensure_registry" ELSE "drop_connector"
           new == [Idle EXCEPT !.at = first, !.met = FirstMet(kind)]
<1>1. /\ c \notin Running /\ parts' = parts /\ task' = task
      /\ Bounded' /\ parts \in Parts
      /\ call' = [d \in Calls |-> IF d = c THEN new
                                  ELSE IF d \in Running THEN Meets(call[d], kind) ELSE Idle]
  BY DEF Begin, LifecycleInv, TypeOK, Bounded
<1>2. first \in Steps /\ KindOf(new) = kind /\ new.at = first /\ new.met = FirstMet(kind)
      /\ new.failed = {} /\ new \in CallRecords
  <2>1. FirstMet(kind) \subseteq Encounters
    BY DEF FirstMet, KindOf, Encounters
  <2>2. first \in Steps
    BY DEF Steps, CreateSteps, DeleteSteps
  <2>3. new \in CallRecords
    BY <2>1, <2>2, IdleRecord DEF CallRecords
  <2>4. new.at = first /\ new.met = FirstMet(kind) /\ new.failed = {}
    BY IdleRecord DEF CallRecords, Idle
  <2> HIDE DEF new
  <2> QED
    BY <2>2, <2>3, <2>4 DEF KindOf, CreateSteps
<1> HIDE DEF new
<1>3. /\ call'[c] = new
      /\ \A d \in Running : /\ d # c /\ d \in Calls /\ call'[d] = Meets(call[d], kind)
                            /\ call[d] \in CallRecords /\ call[d].at \in Steps
      /\ Running' = Running \cup {c}
  <2>1. /\ call'[c] = new
        /\ \A d \in Running : /\ d # c /\ d \in Calls /\ call'[d] = Meets(call[d], kind)
                              /\ call[d] \in CallRecords /\ call[d].at \in Steps
    BY <1>1 DEF Running, LifecycleInv, TypeOK
  <2>2. \A d \in Calls : d \notin Running /\ d # c => call'[d].at = "idle"
    BY <1>1 DEF Idle
  <2>3. \A d \in Running : call'[d].at \in Steps
    BY <2>1, MeetsRecord DEF Encounters
  <2> QED
    BY <1>2, <2>1, <2>2, <2>3, StepKinds DEF Running
<1>4. kind \in Encounters
  BY DEF Encounters
<1>5. \A d \in Running : /\ call'[d] \in CallRecords
                         /\ call'[d].at = call[d].at
                         /\ call'[d].met = call[d].met \cup {kind}
                         /\ KindOf(call'[d]) = KindOf(call[d])
                         /\ Laid(call'[d], parts') /\ Gone(call'[d], parts')
  BY <1>1, <1>3, <1>4, MeetsRecord, MeetsKeeps DEF LifecycleInv, KindOf
<1>6. call' \in [Calls -> CallRecords]
  BY <1>1, <1>2, <1>3, <1>5, IdleRecord
<1>7. Meeting'
  <2> SUFFICES ASSUME NEW d \in Running', NEW e \in Running', d # e
               PROVE  KindOf(call'[e]) \in call'[d].met
    BY DEF Meeting
  <2>1. CASE d \in Running /\ e \in Running
    BY <1>5, <2>1 DEF LifecycleInv, Meeting
  <2>2. CASE d = c
    BY <1>2, <1>3, <1>5, <2>2 DEF FirstMet
  <2>3. CASE e = c
    BY <1>2, <1>3, <1>5, <2>3
  <2> QED
    BY <1>3, <2>1, <2>2, <2>3
<1>8. Laid(new, parts') /\ Gone(new, parts')
  <2>1. CASE kind = "create"
    BY <1>1, <1>2, <2>1 DEF Laid, Gone, FirstMet, CreateSteps, DeleteSteps
  <2>2. CASE kind = "delete"
    BY <1>1, <1>2, <2>2 DEF Laid, Gone, FirstMet, CreateSteps, DeleteSteps, BehindSlot
  <2> QED
    BY <2>1, <2>2
<1>9. TypeOK'
  BY <1>1, <1>6 DEF TypeOK, Bounded, LifecycleInv
<1> QED
  BY <1>3, <1>5, <1>7, <1>8, <1>9 DEF LifecycleInv

LEMMA CrashKeeps ==
    ASSUME LifecycleInv, Crash
    PROVE  LifecycleInv'
<1>1. /\ parts' = parts /\ task' = task /\ call' = [c \in Calls |-> Idle]
      /\ Bounded'
  BY DEF Crash, Trouble, LifecycleInv, TypeOK, Bounded
<1>2. Running' = {}
  BY <1>1, StepKinds DEF Running, Idle
<1>3. TypeOK'
  BY <1>1, IdleRecord DEF LifecycleInv, TypeOK, Bounded
<1> QED
  BY <1>1, <1>2, <1>3 DEF LifecycleInv, Meeting

\* A task that streams makes the slot, and deletes behind their attempts at it
\* come across that.
LEMMA TaskStreamsKeeps ==
    ASSUME LifecycleInv, TaskStreams
    PROVE  LifecycleInv'
<1>1. /\ Outside(parts') /\ task' \in BOOLEAN /\ Bounded'
      /\ call' = [c \in Calls |-> IF parts.slot = "none" /\ call[c].at \in BehindSlot
                                     THEN Meets(call[c], "late") ELSE call[c]]
  BY DEF TaskStreams, LifecycleInv, TypeOK, Bounded, Outside, Parts
<1>2. ASSUME NEW c \in Calls
      PROVE  /\ call[c] \in CallRecords /\ call'[c] \in CallRecords
             /\ call'[c].at = call[c].at /\ call[c].met \subseteq call'[c].met
             /\ Laid(call[c], parts) /\ Gone(call[c], parts)
                   => Laid(call'[c], parts') /\ Gone(call'[c], parts')
  <2>1. call[c] \in CallRecords
    BY DEF LifecycleInv, TypeOK
  <2>2. CASE parts.slot = "none" /\ call[c].at \in BehindSlot
    <3>1. /\ call'[c] = Meets(call[c], "late") /\ "late" \in Encounters
          /\ call'[c] \in CallRecords /\ call'[c].at = call[c].at
          /\ call'[c].met = call[c].met \cup {"late"}
      BY <1>1, <2>1, <2>2, MeetsRecord DEF Encounters
    <3>2. Laid(call[c], parts) /\ Gone(call[c], parts)
            => Laid(call'[c], parts) /\ Gone(call'[c], parts)
      BY <2>1, <3>1, MeetsKeeps
    <3>3. Laid(call'[c], parts) /\ Gone(call'[c], parts)
            => Laid(call'[c], parts') /\ Gone(call'[c], parts')
      BY <1>1, <3>1, OutsideKeeps
    <3> QED
      BY <2>1, <3>1, <3>2, <3>3
  <2>3. CASE ~(parts.slot = "none" /\ call[c].at \in BehindSlot)
    <3>1. call'[c] = call[c]
      BY <1>1, <2>3
    <3> QED
      BY <1>1, <2>1, <2>3, <3>1, OutsideKeeps
  <2> QED
    BY <2>2, <2>3
<1>3. Running' = Running
  BY <1>2 DEF Running
<1>4. Meeting'
  BY <1>2, <1>3 DEF LifecycleInv, Meeting, KindOf, Running
<1>5. call' \in [Calls -> CallRecords]
  BY <1>1, <1>2
<1>6. TypeOK'
  BY <1>1, <1>5 DEF TypeOK, Bounded, Outside, LifecycleInv
<1>7. \A c \in Running' : Laid(call'[c], parts') /\ Gone(call'[c], parts')
  BY <1>2, <1>3 DEF LifecycleInv, Running
<1> QED
  BY <1>4, <1>6, <1>7 DEF LifecycleInv

LEMMA OutsideStepKeeps ==
    ASSUME LifecycleInv, List \/ TaskStarts \/ TaskStops \/ ReverseSync
    PROVE  LifecycleInv'
<1>1. call' = call /\ Bounded' /\ Running' = Running
  BY DEF List, TaskStarts, TaskStops, ReverseSync, LifecycleInv, TypeOK, Bounded, Running
<1>2. /\ Outside(parts') /\ task' \in BOOLEAN
      /\ parts'.slot # "none" => parts.slot # "none"
  <2> USE DEF LifecycleInv, TypeOK, Outside, Parts
  <2>1. CASE List
    BY <2>1 DEF List, EnsureRegistry
  <2>2. CASE TaskStarts
    BY <2>2 DEF TaskStarts
  <2>3. CASE TaskStops
    BY <2>3 DEF TaskStops, KickWalsender
  <2>4. CASE ReverseSync
    BY <2>4 DEF ReverseSync
  <2> QED
    BY <2>1, <2>2, <2>3, <2>4
<1>3. Meeting'
  BY <1>1 DEF LifecycleInv, Meeting, KindOf
<1>4. ASSUME NEW c \in Running
      PROVE  Laid(call[c], parts') /\ Gone(call[c], parts')
  BY <1>2, OutsideKeeps DEF LifecycleInv
<1>5. TypeOK'
  BY <1>1, <1>2 DEF LifecycleInv, TypeOK, Bounded, Outside
<1> QED
  BY <1>1, <1>3, <1>4, <1>5 DEF LifecycleInv

LEMMA InvInit == Init => LifecycleInv
<1> SUFFICES ASSUME Init PROVE LifecycleInv
  OBVIOUS
<1>1. Running = {}
  BY StepKinds DEF Init, Running, Idle
<1>2. TypeOK
  <2>1. parts \in Parts
    BY DEF Init, Parts
  <2>2. call \in [Calls -> CallRecords]
    BY IdleRecord DEF Init
  <2>3. task \in BOOLEAN
    BY DEF Init
  <2>4. begun = 0 /\ faults = 0 /\ crashes = 0
    BY DEF Init
  <2> QED
    BY <2>1, <2>2, <2>3, <2>4 DEF TypeOK
<1> QED
  BY <1>1, <1>2 DEF LifecycleInv, Meeting

LEMMA InvStep == LifecycleInv /\ [Next]_vars => LifecycleInv'
<1> SUFFICES ASSUME LifecycleInv, [Next]_vars PROVE LifecycleInv'
  OBVIOUS
<1>1. ASSUME NEW c \in Calls, NEW kind \in {"create", "delete"}, Begin(c, kind)
      PROVE  LifecycleInv'
  BY <1>1, BeginKeeps
<1>2. ASSUME NEW c \in Calls, Step(c) \/ StepFails(c) \/ StepFailsUnseen(c)
      PROVE  LifecycleInv'
  BY <1>2, RequestKeeps
<1>3. CASE UNCHANGED vars
  <2>1. Running' = Running
    BY <1>3 DEF vars, Running
  <2> QED
    BY <1>3, <2>1 DEF vars, LifecycleInv, TypeOK, Meeting, KindOf
<1> QED
  BY <1>1, <1>2, <1>3, CrashKeeps, TaskStreamsKeeps, OutsideStepKeeps DEF Next

LEMMA AlwaysInv == Spec => []LifecycleInv
BY InvInit, InvStep, PTL DEF Spec

-----------------------------------------------------------------------------
(* The answers.                                                            *)

\* A request is answered by its own step only.
LEMMA AnsweredByStep ==
    ASSUME LifecycleInv, Next, NEW c \in Calls, Returns(c)
    PROVE  Step(c) \/ StepFails(c)
<1>1. /\ call[c] \in CallRecords /\ call[c].at \in Steps /\ call'[c].at = "idle"
      /\ c \in Running /\ crashes' = crashes /\ c \in DOMAIN call
  BY DEF Returns, Running, Idle, LifecycleInv, TypeOK
<1>2. ASSUME call'[c].at = call[c].at
      PROVE  FALSE
  BY <1>1, <1>2, StepKinds
<1>3. ASSUME NEW d \in Calls, NEW kind \in {"create", "delete"}, Begin(d, kind)
      PROVE  FALSE
  <2>1. call'[c] = Meets(call[c], kind)
    BY <1>1, <1>3 DEF Begin
  <2> QED
    BY <1>1, <1>2, <2>1, MeetsRecord DEF Encounters
<1>4. ASSUME NEW d \in Calls, d # c, Step(d) \/ StepFails(d) \/ StepFailsUnseen(d)
      PROVE  FALSE
  <2>1. call'[c] = call[c]
    BY <1>4 DEF Step, StepFails, StepFailsUnseen, LifecycleInv, TypeOK
  <2> QED
    BY <1>2, <2>1
<1>5. ASSUME StepFailsUnseen(c)
      PROVE  FALSE
  <2>1. call[c].at \in Unseen /\ call'[c] = Overlooks(call[c])
    BY <1>1, <1>5 DEF StepFailsUnseen
  <2>2. call'[c].at = Then(call[c])
    BY <1>1, <2>1, OverlookedRecord DEF Overlooked
  <2> QED
    BY <1>1, <2>1, <2>2, ThenOf DEF Unseen
<1>6. ASSUME Crash
      PROVE  FALSE
  BY <1>1, <1>6 DEF Crash, LifecycleInv, TypeOK
<1>7. ASSUME TaskStreams
      PROVE  FALSE
  <2>1. call'[c].at = call[c].at
    BY <1>1, <1>7, MeetsRecord DEF TaskStreams, Encounters
  <2> QED
    BY <1>2, <2>1
<1>8. ASSUME List \/ TaskStarts \/ TaskStops \/ ReverseSync
      PROVE  FALSE
  BY <1>2, <1>8 DEF List, TaskStarts, TaskStops, ReverseSync
<1> QED
  BY <1>3, <1>4, <1>5, <1>6, <1>7, <1>8 DEF Next

\* The step that answers: the last one, or one that fails where no other is
\* to follow.
LEMMA LastStep ==
    ASSUME LifecycleInv, Next, NEW c \in Calls, Returns(c)
    PROVE  /\ c \in Running
           /\ \/ /\ ~FailsNow(c)
                 /\ Then(call[c]) = "idle"
                 /\ Does(call[c].at, parts')
              \/ /\ FailsNow(c)
                 /\ Otherwise(call[c]) = "idle"
                 /\ parts' = parts \/ Does(call[c].at, parts')
<1>0. c \in Running /\ c \in DOMAIN call /\ call'[c].at = "idle"
  BY DEF Returns, Idle, LifecycleInv, TypeOK
<1>1. CASE Step(c) /\ call[c].at \notin Refused
  <2>1. call'[c] = GoesOn(call[c]) /\ parts' = Effect[call[c].at] /\ faults' = faults
    BY <1>0, <1>1 DEF Step
  <2>2. Then(call[c]) = "idle"
    BY <1>0, <2>1, Own, GoesOnRecord DEF GoneOn
  <2> QED
    BY <1>0, <1>1, <2>1, <2>2, Own DEF FailsNow
<1>2. CASE Step(c) /\ call[c].at \in Refused
  <2>1. call'[c] = Fails(call[c]) /\ parts' = parts
    BY <1>0, <1>2 DEF Step
  <2>2. Otherwise(call[c]) = "idle"
    BY <1>0, <2>1, Own, FailsRecord DEF Failed
  <2> QED
    BY <1>0, <1>2, <2>1, <2>2 DEF FailsNow
<1>3. CASE StepFails(c)
  <2>1. call'[c] = Fails(call[c]) /\ (parts' = parts \/ parts' = Effect[call[c].at])
    BY <1>0, <1>3 DEF StepFails
  <2>2. Otherwise(call[c]) = "idle"
    BY <1>0, <2>1, Own, FailsRecord DEF Failed
  <2>3. faults' # faults
    BY <1>3 DEF StepFails, Fault, LifecycleInv, TypeOK
  <2> QED
    BY <1>0, <2>1, <2>2, <2>3, Own DEF FailsNow
<1> QED
  BY <1>1, <1>2, <1>3, AnsweredByStep

\* The requests' records and the project's parts keep their types, and a
\* delete never makes more than MaxKicks attempts at the slot.
THEOREM LifecycleTypesCorrect == Spec => []TypeOK
<1>1. LifecycleInv => TypeOK
  BY DEF LifecycleInv
<1> QED
  BY <1>1, AlwaysInv, PTL

LEMMA DeleteLeaves ==
    ASSUME LifecycleInv, Next, NEW c \in Calls, Returns(c),
           call[c].at \in DeleteSteps, "create" \notin call[c].met
    PROVE  OnlyFailuresLeft(parts', call[c].failed \cup {s \in {call[c].at} : FailsNow(c)},
                            call[c].met)
<1>0. c \in Running /\ Gone(call[c], parts) /\ parts \in Parts
  BY LastStep, Own
<1>1. CASE ~FailsNow(c) /\ Then(call[c]) = "idle" /\ Does(call[c].at, parts')
  <2>1. call[c].at = "drop_ledger"
    BY <1>1, ThenOf, SomeSlot DEF DeleteSteps
  <2> QED
    BY <1>0, <1>1, <2>1 DEF Gone, Does, OnlyFailuresLeft, DeleteSteps, BehindSlot
<1>2. CASE /\ FailsNow(c) /\ Otherwise(call[c]) = "idle"
           /\ parts' = parts \/ Does(call[c].at, parts')
  <2>1. call[c].at \in {"drop_row", "drop_ledger"}
    BY <1>2, OtherwiseOf DEF DeleteSteps
  <2>2. call[c].at \in call[c].failed \cup {s \in {call[c].at} : FailsNow(c)}
    BY <1>2
  <2>3. /\ parts'.connector => parts.connector
        /\ parts'.schema => parts.schema
        /\ parts'.catalog => parts.catalog
        /\ parts'.cdc => parts.cdc
        /\ parts'.row => parts.row
        /\ parts'.pub = parts.pub /\ parts'.slot = parts.slot
    BY <1>2, <2>1 DEF Does
  <2> QED
    BY <1>0, <2>1, <2>2, <2>3 DEF Gone, OnlyFailuresLeft, DeleteSteps, BehindSlot
<1> QED
  BY <1>1, <1>2, LastStep

\* Whatever requests, failures and restarts came before, and whatever Debezium
\* does meanwhile, a delete that meets no create leaves only what its own
\* failing steps were to remove, and a slot only behind failures, MaxKicks
\* attempts that all found it active, or a stream opened after the attempts
\* (delete(), provisioner.py:439-474).
THEOREM TornDownHolds == Spec => TornDown
<1>1. LifecycleInv /\ [Next]_vars
        => [\A c \in Calls :
               /\ Returns(c) /\ call[c].at \in DeleteSteps
               /\ "create" \notin call[c].met
               => OnlyFailuresLeft(parts', call[c].failed \cup
                                             {s \in {call[c].at} : FailsNow(c)},
                                   call[c].met)]_vars
  BY DeleteLeaves
<1> QED
  BY <1>1, AlwaysInv, PTL DEF Spec, TornDown

\* What has become of a create that is answered.
LEMMA CreateEnds ==
    ASSUME LifecycleInv, Next, NEW c \in Calls, Returns(c), call[c].at \in CreateSteps
    PROVE  /\ Ready(c) => Does("persist", parts') /\ call[c].at = "persist"
           /\ Ready(c) \/ FailsNow(c)
<1>1. CASE ~FailsNow(c) /\ Then(call[c]) = "idle" /\ Does(call[c].at, parts')
  <2>1. call[c].at = "persist"
    BY <1>1, ThenOf, SomePublication DEF CreateSteps
  <2> QED
    BY <1>1, <2>1 DEF Ready
<1>2. CASE FailsNow(c)
  BY <1>2 DEF Ready
<1> QED
  BY <1>1, <1>2, LastStep

\* A create that says "ready" and met no delete has everything in place but
\* what the property names (create(), provisioner.py:256-283).
THEOREM CreateWiresHolds == Spec => CreateWires
<1>1. LifecycleInv /\ [Next]_vars
        => [\A c \in Calls :
               Ready(c) /\ "delete" \notin call[c].met =>
                  /\ parts'.schema /\ parts'.catalog /\ parts'.cdc /\ parts'.row
                  /\ parts'.connector \/ "create_connector" \in call[c].failed
                  /\ parts'.pub = "covers" \/ "leftover" \in call[c].met]_vars
  <2> SUFFICES ASSUME LifecycleInv, Next, NEW c \in Calls, Ready(c),
                      "delete" \notin call[c].met
               PROVE  /\ parts'.schema /\ parts'.catalog /\ parts'.cdc /\ parts'.row
                      /\ parts'.connector \/ "create_connector" \in call[c].failed
                      /\ parts'.pub = "covers" \/ "leftover" \in call[c].met
    OBVIOUS
  <2>1. Returns(c) /\ call[c].at = "persist" /\ c \in Running
    BY DEF Ready, Returns
  <2>2. Does("persist", parts')
    BY <2>1, CreateEnds DEF CreateSteps
  <2>3. Laid(call[c], parts) /\ parts \in Parts
    BY <2>1, Own
  <2> QED
    BY <2>1, <2>2, <2>3 DEF Laid, Does, Parts, CreateSteps
<1> QED
  BY <1>1, AlwaysInv, PTL DEF Spec, CreateWires

\* No step of a create is refused for what earlier attempts have left.
THEOREM RetryWorksHolds == Spec => RetryWorks
<1>1. LifecycleInv /\ [Next]_vars
        => [\A c \in Calls :
               Returns(c) /\ call[c].at \in CreateSteps =>
                  \/ Ready(c)
                  \/ faults' # faults
                  \/ call[c].met \cap {"create", "delete"} # {}]_vars
  <2> SUFFICES ASSUME LifecycleInv, Next, NEW c \in Calls, Returns(c),
                      call[c].at \in CreateSteps, ~Ready(c), faults' = faults,
                      "create" \notin call[c].met, "delete" \notin call[c].met
               PROVE  FALSE
    OBVIOUS
  <2>1. FailsNow(c) /\ c \in Running
    BY CreateEnds DEF Returns
  <2>2. call[c].at \in Refused
    BY <2>1 DEF FailsNow
  <2>3. Laid(call[c], parts)
    BY <2>1, Own
  <2> QED
    BY <2>2, <2>3 DEF Refused, Laid, CreateSteps, Steps
<1> QED
  BY <1>1, AlwaysInv, PTL DEF Spec, RetryWorks
=============================================================================
