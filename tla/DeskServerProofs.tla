-------------------------- MODULE DeskServerProofs --------------------------
(***************************************************************************)
(* Proofs about DeskServer, for any threads, packs, bounds and length of   *)
(* the log.  Types and the desk's own projects hold however requests       *)
(* interleave; the numbers of a board and the override hold when requests  *)
(* do not overlap (Overlap = FALSE).                                       *)
(***************************************************************************)
EXTENDS DeskServer, TLAPS

-----------------------------------------------------------------------------
(* The inductive invariants.                                               *)

\* What is stored never becomes absent again, and a request with a pack has
\* stored it before it uses it.
Stocked ==
  /\ (override \/ \E p \in projects : p.bound) => catalog # "absent"
  /\ \A t \in Threads :
       /\ mem[t].prev => catalog # "absent"
       /\ pc[t] \in {"fill", "load"} => upload # "absent"
       /\ pc[t] \in {"overlay", "point", "bind"} => catalog # "absent"
       /\ pc[t] \in {"upload", "fill", "load", "catalog", "overlay", "point", "bind"}
            => mem[t].pack # Default
       /\ pc[t] \in {"enter", "root", "create", "attach", "catalog", "overlay"}
            => (mem[t].pack # Default => mem[t].got # Default)
       /\ pc[t] \in {"reindex", "refill"} => Len(mem[t].rows) <= Keep

\* The desk's globals point at some request's root when a project is made.
Rooted == \A t \in Threads : /\ pc[t] # "idle" => mem[t].id # 0
                             /\ pc[t] = "create" => root # 0

\* One request under way, and it is the latest.
Alone == /\ \A t, u \in Threads : pc[t] # "idle" /\ pc[u] # "idle" => t = u
         /\ \A t \in Threads : pc[t] # "idle" => mem[t].id = requests
         /\ \A p \in projects : p.id <= requests

Overriding == {"bind", "safe", "noted", "hostile", "renoted", "leave", "restore"}

\* The override is on between Point and Restore of a request only.
Overridden == /\ override => \E t \in Threads : pc[t] \in Overriding
              /\ \A t \in Threads : ~mem[t].prev

\* Every project is in the root of the request that made it.
Placed ==
  /\ \A p \in projects : p.root = p.id
  /\ \A t \in Threads : pc[t] \in {"create", "attach", "catalog", "overlay", "point", "bind"}
                          => root = mem[t].id

\* What the request under way has stored and bound is its client's pack...
OwnPack ==
  \A t \in Threads :
    /\ pc[t] = "load" => upload = mem[t].pack
    /\ pc[t] \in {"enter", "root", "create", "attach", "catalog", "overlay"}
         => mem[t].got = mem[t].pack
    /\ pc[t] \in {"point", "bind"} => catalog = mem[t].pack
    /\ pc[t] \in {"upload", "fill", "load", "enter", "root", "create"}
         => \A p \in projects : p.id # mem[t].id
    /\ pc[t] \in {"attach", "catalog", "overlay", "point", "bind"}
         => \A p \in projects : p.id = mem[t].id => ~p.bound
    /\ pc[t] \in {"safe", "noted", "hostile", "renoted"}
         => IF mem[t].pack = Default
            THEN ~override /\ \A p \in projects : p.id = mem[t].id => ~p.bound
            ELSE catalog = mem[t].pack /\ \A p \in projects : p.id = mem[t].id => p.bound

\* ...and so is what its soils were evaluated on.
OwnNumbers ==
  \A t \in Threads :
    /\ pc[t] \in {"noted", "hostile", "renoted"} => mem[t].safe = mem[t].pack
    /\ pc[t] = "renoted" => mem[t].hostile = mem[t].pack
    /\ \/ pc[t] \in {"leave", "restore"} /\ ~mem[t].failed
       \/ pc[t] \in {"receipt", "board", "row", "index", "prune", "reindex", "refill", "answer"}
          /\ mem[t].dual
       => mem[t].safe = mem[t].pack /\ mem[t].hostile = mem[t].pack

SerialInv == Alone /\ Overridden /\ Placed /\ OwnPack /\ OwnNumbers /\ OwnSoils
\* The rows of the log go from the newest to the oldest...
Descending(q) == \A i, j \in DOMAIN q : i < j => q[i] > q[j]

\* ...and the acknowledged ones are all there, or Keep newer ones are.
Retained(q) == \A n \in saved : \/ \E i \in DOMAIN q : q[i] = n
                                \/ Len(q) = Keep /\ \A i \in DOMAIN q : q[i] > n

\* The file of the oldest row is missing between the prune and the new index.
Filed == \A i \in DOMAIN index :
           index[i] \in files \/ (i = Keep /\ (kills > 0 \/ \E t \in Threads : pc[t] = "reindex"))

\* What the request under way holds for the index, and what it has written.
Rows ==
  \A t \in Threads :
    /\ pc[t] \notin {"idle", "answer"} => \A i \in DOMAIN index : index[i] < mem[t].id
    /\ pc[t] \in {"index", "prune", "reindex", "refill"} => mem[t].id \in files
    /\ pc[t] = "prune" => readable /\ mem[t].rows = <<mem[t].id>> \o index
    /\ pc[t] \in {"reindex", "refill"}
         => /\ Descending(mem[t].rows) /\ Retained(mem[t].rows)
            /\ Len(mem[t].rows) > 0 /\ mem[t].rows[1] = mem[t].id
            /\ \A i \in DOMAIN mem[t].rows : mem[t].rows[i] \in files
    /\ pc[t] = "answer" => readable /\ \E i \in DOMAIN index : index[i] = mem[t].id

LogInv == /\ Descending(index) /\ (readable => Retained(index)) /\ Filed
          /\ \A i \in DOMAIN index : index[i] <= requests
          /\ Rows

-----------------------------------------------------------------------------
(* Memory and steps.                                                       *)

LEMMA FreshType ==
  ASSUME NEW n \in RequestIds, NEW p \in Soils, NEW d \in BOOLEAN
  PROVE  Fresh(n, p, d) \in Memory
BY DEF Fresh, Memory, Soils

LEMMA NothingType == Nothing \in Memory
<1>1. 0 \in RequestIds /\ Default \in Soils
  BY DeskAssumption DEF RequestIds, Soils
<1>2. QED
  BY <1>1, FreshType DEF Nothing

\* The memory of a request keeps its type under each update the steps make.
LEMMA SoilUpdates ==
  ASSUME NEW m \in Memory, NEW s \in Soils
  PROVE  /\ [m EXCEPT !.got = s] \in Memory
         /\ [m EXCEPT !.safe = s] \in Memory
         /\ [m EXCEPT !.hostile = s] \in Memory
BY DEF Memory

LEMMA FlagUpdates ==
  ASSUME NEW m \in Memory, NEW b \in BOOLEAN
  PROVE  [m EXCEPT !.prev = b] \in Memory /\ [m EXCEPT !.failed = b] \in Memory
BY DEF Memory

LEMMA RowUpdates ==
  ASSUME NEW m \in Memory, NEW q \in Seq(RequestIds)
  PROVE  [m EXCEPT !.rows = q] \in Memory
BY DEF Memory

\* The index never has more than Keep rows.
LEMMA KeptType ==
  ASSUME NEW q \in Seq(RequestIds)
  PROVE  Kept(q) \in Seq(RequestIds) /\ Len(Kept(q)) <= Keep
BY DeskAssumption DEF Kept

\* A step is a request that arrives, one operation of a request, or a kill.
LEMMA NextCases ==
  ASSUME Next
  PROVE  \/ \E t \in Threads, p \in Soils : Dual(t, p)
         \/ \E t \in Threads : SaveOnly(t)
         \/ \E t \in Threads : Step(t)
         \/ Kill
BY DEF Next

-----------------------------------------------------------------------------
(* What the steps with the longest texts leave alone.                      *)

\* Only thread t moves, and it keeps the request and what it has stored.
Same(t) ==
  /\ \A u \in Threads \ {t} : pc'[u] = pc[u] /\ mem'[u] = mem[u]
  /\ mem'[t].id = mem[t].id /\ mem'[t].pack = mem[t].pack /\ mem'[t].got = mem[t].got
  /\ mem'[t].prev = mem[t].prev /\ mem'[t].dual = mem[t].dual

LEMMA RaiseFrame ==
  ASSUME TypeOK, NEW t \in Threads, Raise(t)
  PROVE  Same(t) /\ pc'[t] = "leave" /\ mem'[t].failed
<1>1. mem[t] \in Memory /\ mem' = [mem EXCEPT ![t].failed = TRUE]
  BY DEF TypeOK, Raise
<1>2. QED
  BY <1>1 DEF Raise, Goto, Same, TypeOK, Memory

LEMMA EvaluateFrame ==
  ASSUME TypeOK, NEW t \in Threads, NEW ok \in BOOLEAN, Evaluate(t, ok)
  PROVE  /\ Same(t) /\ UNCHANGED <<disk, override, root, bounds, shown>>
         /\ pc[t] \in {"safe", "hostile"}
         /\ \/ pc'[t] = "leave" /\ mem'[t].failed
            \/ \E p \in Found(t) :
                 \/ /\ pc[t] = "safe" /\ pc'[t] = "noted"
                    /\ mem'[t].safe = Source(p)
                 \/ /\ pc[t] = "hostile" /\ pc'[t] = "renoted"
                    /\ mem'[t].hostile = Source(p) /\ mem'[t].safe = mem[t].safe
<1>0. UNCHANGED <<disk, override, root, bounds, shown>> /\ pc[t] \in {"safe", "hostile"}
  BY Zenon DEF Evaluate
<1>1. CASE Raise(t)
  BY <1>0, <1>1, RaiseFrame
<1>2. CASE ~Raise(t)
  <2>1. PICK p \in Found(t) :
          \/ /\ pc[t] = "safe" /\ Goto(t, "noted")
             /\ mem' = [mem EXCEPT ![t].safe = Source(p)]
          \/ /\ pc[t] = "hostile" /\ Goto(t, "renoted")
             /\ mem' = [mem EXCEPT ![t].hostile = Source(p)]
    BY <1>0, <1>2, Zenon DEF Evaluate
  <2> DEFINE s == Source(p)
  <2>2. mem[t] \in Memory
    BY DEF TypeOK
  <2>3. CASE pc[t] = "safe"
    <3>1. Goto(t, "noted") /\ mem' = [mem EXCEPT ![t].safe = s]
      BY <2>1, <2>3
    <3> HIDE DEF s
    <3>2. Same(t) /\ pc'[t] = "noted" /\ mem'[t].safe = s
      BY <2>2, <3>1 DEF Same, TypeOK, Memory, Goto
    <3>3. QED
      BY <1>0, <2>3, <3>2 DEF s
  <2>4. CASE pc[t] = "hostile"
    <3>1. Goto(t, "renoted") /\ mem' = [mem EXCEPT ![t].hostile = s]
      BY <2>1, <2>4
    <3> HIDE DEF s
    <3>2. /\ Same(t) /\ pc'[t] = "renoted"
          /\ mem'[t].hostile = s /\ mem'[t].safe = mem[t].safe
      BY <2>2, <3>1 DEF Same, TypeOK, Memory, Goto
    <3>3. QED
      BY <1>0, <2>4, <3>2 DEF s
  <2>5. QED
    BY <1>0, <2>3, <2>4
<1>3. QED
  BY <1>1, <1>2

LEMMA ReadIndexFrame ==
  ASSUME TypeOK, NEW t \in Threads, ReadIndex(t)
  PROVE  /\ \A u \in Threads \ {t} : pc'[u] = pc[u] /\ mem'[u] = mem[u]
         /\ UNCHANGED <<disk, override, root, bounds, shown>>
         /\ pc[t] = "index"
         /\ \/ pc'[t] = "idle" /\ mem'[t] = Nothing
            \/ /\ pc'[t] = "prune" /\ Same(t)
               /\ mem'[t].safe = mem[t].safe /\ mem'[t].hostile = mem[t].hostile
<1> DEFINE q == <<mem[t].id>> \o index
<1>0. /\ mem[t] \in Memory /\ pc[t] = "index"
      /\ UNCHANGED <<disk, override, root, bounds, shown>>
  BY DEF TypeOK, ReadIndex
<1>1. \/ pc' = [pc EXCEPT ![t] = "idle"] /\ mem' = [mem EXCEPT ![t] = Nothing]
      \/ pc' = [pc EXCEPT ![t] = "prune"] /\ mem' = [mem EXCEPT ![t].rows = q]
  BY DEF ReadIndex, Finish, Goto
<1> HIDE DEF q
<1>2. CASE pc' = [pc EXCEPT ![t] = "idle"] /\ mem' = [mem EXCEPT ![t] = Nothing]
  BY <1>0, <1>2 DEF TypeOK
<1>3. CASE pc' = [pc EXCEPT ![t] = "prune"] /\ mem' = [mem EXCEPT ![t].rows = q]
  BY <1>0, <1>3 DEF TypeOK, Memory, Same
<1>4. QED
  BY <1>1, <1>2, <1>3

\* Binding marks the projects found and makes none.
LEMMA BindFrame ==
  ASSUME TypeOK, NEW t \in Threads, Bind(t)
  PROVE  /\ \A u \in Threads \ {t} : pc'[u] = pc[u] /\ mem'[u] = mem[u]
         /\ \/ Raise(t) /\ UNCHANGED projects
            \/ /\ pc' = [pc EXCEPT ![t] = "safe"] /\ UNCHANGED mem
               /\ \A p \in projects' :
                    \/ p \in projects \ Found(t)
                    \/ p.bound /\ \E o \in Found(t) : p.id = o.id /\ p.root = o.root
<1>1. CASE Found(t) = {}
  <2>1. Raise(t) /\ UNCHANGED projects
    BY <1>1 DEF Bind
  <2>2. QED
    BY <2>1, RaiseFrame DEF Same
<1>2. CASE Found(t) # {}
  <2>1. /\ projects' = (projects \ Found(t)) \cup {[p EXCEPT !.bound = TRUE] : p \in Found(t)}
        /\ pc' = [pc EXCEPT ![t] = "safe"] /\ UNCHANGED mem
    BY <1>2 DEF Bind, Goto
  <2>2. \A p \in Found(t) : LET b == [p EXCEPT !.bound = TRUE]
                            IN  b.bound /\ b.id = p.id /\ b.root = p.root
    BY DEF Found, TypeOK, Project
  <2>3. QED
    BY <2>1, <2>2 DEF TypeOK
<1>3. QED
  BY <1>1, <1>2

\* Attach and Record fail, or only go on.
LEMMA AttachFrame ==
  ASSUME TypeOK, NEW t \in Threads, Attach(t) \/ Record(t)
  PROVE  /\ \A u \in Threads \ {t} : pc'[u] = pc[u] /\ mem'[u] = mem[u]
         /\ UNCHANGED <<disk, override, root, bounds, shown>>
         /\ pc[t] \in {"attach", "noted", "renoted"}
         /\ \/ Raise(t)
            \/ /\ UNCHANGED mem
               /\ \/ pc[t] = "attach" /\ mem[t].pack = Default /\ pc'[t] = "safe"
                  \/ pc[t] = "attach" /\ mem[t].pack # Default /\ pc'[t] = "catalog"
                  \/ pc[t] = "noted" /\ pc'[t] = "hostile"
                  \/ pc[t] = "renoted" /\ pc'[t] = "leave"
<1>1. /\ UNCHANGED <<disk, override, root, bounds, shown>>
      /\ pc[t] \in {"attach", "noted", "renoted"}
  BY DEF Attach, Record
<1>2. CASE Raise(t)
  BY <1>1, <1>2, RaiseFrame DEF Same
<1>3. CASE ~Raise(t)
  <2>1. /\ UNCHANGED mem
        /\ \/ pc[t] = "attach" /\ mem[t].pack = Default /\ Goto(t, "safe")
           \/ pc[t] = "attach" /\ mem[t].pack # Default /\ Goto(t, "catalog")
           \/ pc[t] = "noted" /\ Goto(t, "hostile")
           \/ pc[t] = "renoted" /\ Goto(t, "leave")
    BY <1>3 DEF Attach, Record
  <2>2. QED
    BY <1>1, <2>1 DEF Goto, TypeOK
<1>4. QED
  BY <1>2, <1>3

\* Loading fails on a torn upload, or takes what is there.
LEMMA RestoreFrame ==
  ASSUME TypeOK, NEW t \in Threads, Restore(t)
  PROVE  /\ \A u \in Threads \ {t} : pc'[u] = pc[u] /\ mem'[u] = mem[u]
         /\ UNCHANGED <<disk, root, bounds, shown>> /\ override' = mem[t].prev
         /\ pc[t] = "restore"
         /\ \/ pc'[t] = "idle" /\ mem'[t] = Nothing
            \/ pc'[t] = "receipt" /\ mem' = mem /\ ~mem[t].failed
<1>1. /\ UNCHANGED <<disk, root, bounds, shown>> /\ override' = mem[t].prev
      /\ pc[t] = "restore"
  BY DEF Restore
<1>2. CASE mem[t].failed
  BY <1>1, <1>2 DEF Restore, Finish, Goto, TypeOK
<1>3. CASE ~mem[t].failed
  BY <1>1, <1>3 DEF Restore, Goto, TypeOK
<1>4. QED
  BY <1>2, <1>3

LEMMA LoadFrame ==
  ASSUME TypeOK, NEW t \in Threads, Load(t)
  PROVE  /\ \A u \in Threads \ {t} : pc'[u] = pc[u] /\ mem'[u] = mem[u]
         /\ UNCHANGED <<disk, override, root, bounds, shown>>
         /\ pc[t] = "load"
         /\ \/ pc'[t] = "idle" /\ mem'[t] = Nothing
            \/ /\ pc'[t] = "enter" /\ mem'[t].got = upload
               /\ mem'[t].id = mem[t].id /\ mem'[t].pack = mem[t].pack
               /\ mem'[t].prev = mem[t].prev /\ mem'[t].dual = mem[t].dual
<1>0. mem[t] \in Memory /\ UNCHANGED <<disk, override, root, bounds, shown>> /\ pc[t] = "load"
  BY DEF TypeOK, Load
<1>1. CASE upload = "torn"
  BY <1>0, <1>1 DEF Load, Finish, Goto, TypeOK
<1>2. CASE upload # "torn"
  <2>1. Goto(t, "enter") /\ mem' = [mem EXCEPT ![t].got = upload]
    BY <1>2 DEF Load
  <2>2. QED
    BY <1>0, <2>1 DEF Goto, TypeOK, Memory
<1>3. QED
  BY <1>1, <1>2

-----------------------------------------------------------------------------
(* Type correctness, however requests interleave.                          *)

LEMMA TypeInit == Init => TypeOK /\ Stocked
<1> SUFFICES ASSUME Init PROVE TypeOK /\ Stocked
  OBVIOUS
<1>1. Nothing \in Memory /\ ~Nothing.prev
  BY NothingType DEF Nothing, Fresh
<1>2. 0 \in RequestIds /\ <<>> \in Seq(RequestIds) /\ Len(<<>>) <= Keep
  BY DeskAssumption DEF RequestIds
<1>3. TypeOK
  <2>1. pc \in [Threads -> Labels] /\ mem \in [Threads -> Memory]
    BY <1>1 DEF Init, Labels
  <2>2. upload \in File /\ catalog \in File /\ kills \in 0..MaxKills
    BY DeskAssumption DEF Init, File
  <2>3. QED
    BY <1>2, <2>1, <2>2 DEF Init, TypeOK
<1>4. Stocked
  BY <1>1 DEF Init, Stocked
<1>5. QED
  BY <1>3, <1>4

LEMMA TypeStep == TypeOK /\ Stocked /\ [Next]_vars => TypeOK'
<1> SUFFICES ASSUME TypeOK, Stocked, [Next]_vars PROVE TypeOK'
  OBVIOUS
<1> USE DEF TypeOK, Goto, Finish, Raise, disk, log, bounds, shown
<1>0. Nothing \in Memory
  BY NothingType
<1>1. ASSUME NEW t \in Threads, NEW p \in Soils, Dual(t, p) PROVE TypeOK'
  <2>1. requests' \in RequestIds
    BY <1>1, DeskAssumption DEF Dual, Arrive, RequestIds
  <2>2. Fresh(requests', p, TRUE) \in Memory
    BY <2>1, FreshType
  <2>3. pc' \in [Threads -> Labels] /\ mem' \in [Threads -> Memory]
    BY <1>1, <2>2 DEF Dual, Labels
  <2>4. QED
    BY <1>1, <2>1, <2>3 DEF Dual, Arrive
<1>2. ASSUME NEW t \in Threads, SaveOnly(t) PROVE TypeOK'
  <2>1. requests' \in RequestIds
    BY <1>2, DeskAssumption DEF SaveOnly, Arrive, RequestIds
  <2>2. Fresh(requests', Default, FALSE) \in Memory
    BY <2>1, FreshType DEF Soils
  <2>3. pc' \in [Threads -> Labels] /\ mem' \in [Threads -> Memory]
    BY <1>2, <2>2 DEF SaveOnly, Labels
  <2>4. QED
    BY <1>2, <2>1, <2>3 DEF SaveOnly, Arrive
<1>3. ASSUME NEW t \in Threads, Step(t) PROVE TypeOK'
  <2>0. mem[t] \in Memory
    OBVIOUS
  <2>01. /\ mem[t].pack \in Soils /\ mem[t].got \in Soils /\ mem[t].id \in RequestIds
         /\ mem[t].prev \in BOOLEAN /\ mem[t].rows \in Seq(RequestIds)
         /\ mem[t].safe \in Soils /\ mem[t].hostile \in Soils
    BY <2>0 DEF Memory
  <2>1. CASE Upload(t)
    <3>1. upload' \in File
      BY <2>1, <2>01 DEF Upload, Stocked, Soils, File
    <3>2. QED
      BY <2>1, <3>1 DEF Upload, Labels
  <2>2. CASE Load(t)
    <3>1. CASE upload = "torn"
      BY <1>0, <2>2, <3>1 DEF Load, Labels
    <3>2. CASE upload # "torn"
      <4>1. upload \in Soils
        BY <2>2, <3>2 DEF Load, Stocked, File, Soils
      <4>2. [mem[t] EXCEPT !.got = upload] \in Memory
        BY <2>0, <4>1, SoilUpdates
      <4>3. mem' = [mem EXCEPT ![t] = [mem[t] EXCEPT !.got = upload]]
        BY <2>2, <3>2 DEF Load
      <4>4. QED
        BY <2>2, <3>2, <4>2, <4>3 DEF Load, Labels
    <3>3. QED
      BY <3>1, <3>2
  <2>3. CASE Enter(t)
    <3>1. [mem[t] EXCEPT !.prev = override] \in Memory
      BY <2>0, FlagUpdates
    <3>2. mem' = [mem EXCEPT ![t] = [mem[t] EXCEPT !.prev = override]]
      BY <2>3 DEF Enter
    <3>3. QED
      BY <2>3, <3>1, <3>2 DEF Enter, Labels
  <2>4. CASE SetRoot(t)
    BY <2>4, <2>01 DEF SetRoot, Labels
  <2>5. CASE Create(t)
    <3>1. [id |-> mem[t].id, root |-> root, bound |-> FALSE] \in Project
      BY <2>01 DEF Project
    <3>2. QED
      BY <2>5, <3>1 DEF Create, Labels
  <2>60. [mem[t] EXCEPT !.failed = TRUE] \in Memory
    BY <2>0, FlagUpdates
  <2>61. ASSUME Raise(t) PROVE pc' \in [Threads -> Labels] /\ mem' \in [Threads -> Memory]
    <3>1. mem' = [mem EXCEPT ![t] = [mem[t] EXCEPT !.failed = TRUE]]
      BY <2>61
    <3>2. QED
      BY <2>60, <2>61, <3>1 DEF Labels
  <2>6. CASE Attach(t)
    <3>1. CASE Found(t) = {}
      <4>1. Raise(t)
        BY <2>6, <3>1 DEF Attach
      <4>2. pc' \in [Threads -> Labels] /\ mem' \in [Threads -> Memory]
        BY <2>61, <4>1
      <4>3. QED
        BY <2>6, <4>2 DEF Attach
    <3>2. CASE Found(t) # {}
      BY <2>6, <3>2 DEF Attach, Labels
    <3>3. QED
      BY <3>1, <3>2
  <2>7. CASE Materialize(t)
    <3>1. catalog' \in File
      BY <2>7, <2>01 DEF Materialize, Stocked, Soils, File
    <3>2. QED
      BY <2>7, <3>1 DEF Materialize, Labels
  <2>8. CASE Point(t)
    BY <2>8 DEF Point, Labels
  <2>9. CASE Bind(t)
    <3>1. CASE Found(t) = {}
      <4>1. Raise(t)
        BY <2>9, <3>1 DEF Bind
      <4>2. pc' \in [Threads -> Labels] /\ mem' \in [Threads -> Memory]
        BY <2>61, <4>1
      <4>3. QED
        BY <2>9, <3>1, <4>2 DEF Bind
    <3>2. CASE Found(t) # {}
      <4>1. \A p \in Found(t) : p \in Project /\ [p EXCEPT !.bound = TRUE] \in Project
        BY DEF Found, Project
      <4>2. projects' \in SUBSET Project
        BY <2>9, <3>2, <4>1 DEF Bind
      <4>3. QED
        BY <2>9, <3>2, <4>2 DEF Bind, Labels
    <3>3. QED
      BY <3>1, <3>2
  <2>10. ASSUME NEW ok \in BOOLEAN, Evaluate(t, ok) PROVE TypeOK'
    <3>1. CASE Raise(t)
      <4>1. pc' \in [Threads -> Labels] /\ mem' \in [Threads -> Memory]
        BY <2>61, <3>1
      <4>2. QED
        BY <2>10, <4>1 DEF Evaluate
    <3>2. CASE ~Raise(t)
      <4>1. PICK p \in Found(t) :
               /\ Source(p) # "torn"
               /\ \/ mem' = [mem EXCEPT ![t].safe = Source(p)] /\ Goto(t, "noted")
                  \/ mem' = [mem EXCEPT ![t].hostile = Source(p)] /\ Goto(t, "renoted")
        BY <2>10, <3>2, Zenon DEF Evaluate
      <4>2. Source(p) \in Soils
        BY <4>1 DEF Source, Stocked, File, Soils, Found
      <4>3. /\ [mem[t] EXCEPT !.safe = Source(p)] \in Memory
            /\ [mem[t] EXCEPT !.hostile = Source(p)] \in Memory
        BY <2>0, <4>2, SoilUpdates
      <4>4. \/ mem' = [mem EXCEPT ![t] = [mem[t] EXCEPT !.safe = Source(p)]] /\ Goto(t, "noted")
            \/ mem' = [mem EXCEPT ![t] = [mem[t] EXCEPT !.hostile = Source(p)]]
               /\ Goto(t, "renoted")
        BY <4>1
      <4>5. pc' \in [Threads -> Labels]
        BY <4>4 DEF Labels
      <4>6. mem' \in [Threads -> Memory]
        BY <4>3, <4>4
      <4>7. QED
        BY <2>10, <4>5, <4>6 DEF Evaluate
    <3>3. QED
      BY <3>1, <3>2
  <2>11. CASE Record(t)
    <3>1. CASE Found(t) = {}
      <4>1. Raise(t)
        BY <2>11, <3>1 DEF Record
      <4>2. pc' \in [Threads -> Labels] /\ mem' \in [Threads -> Memory]
        BY <2>61, <4>1
      <4>3. QED
        BY <2>11, <4>2 DEF Record
    <3>2. CASE Found(t) # {}
      BY <2>11, <3>2 DEF Record, Labels
    <3>3. QED
      BY <3>1, <3>2
  <2>12. CASE Leave(t)
    BY <2>12 DEF Leave, Labels
  <2>13. CASE Restore(t)
    BY <1>0, <2>01, <2>13 DEF Restore, Labels
  <2>14. CASE Publish(t)
    BY <2>01, <2>14 DEF Publish, Labels
  <2>15. CASE WriteRow(t)
    BY <2>01, <2>15 DEF WriteRow, Labels
  <2>16. CASE ReadIndex(t)
    <3>1. <<mem[t].id>> \o index \in Seq(RequestIds)
      BY <2>01
    <3>2. [mem[t] EXCEPT !.rows = <<mem[t].id>> \o index] \in Memory
      BY <2>0, <3>1, RowUpdates
    <3>3. \/ pc' = [pc EXCEPT ![t] = "idle"] /\ mem' = [mem EXCEPT ![t] = Nothing]
          \/ /\ pc' = [pc EXCEPT ![t] = "prune"]
             /\ mem' = [mem EXCEPT ![t] = [mem[t] EXCEPT !.rows = <<mem[t].id>> \o index]]
      BY <2>16 DEF ReadIndex
    <3>4. pc' \in [Threads -> Labels] /\ mem' \in [Threads -> Memory]
      BY <1>0, <3>2, <3>3 DEF Labels
    <3>5. QED
      BY <2>16, <3>4 DEF ReadIndex
  <2>17. CASE Prune(t)
    <3>1. Kept(mem[t].rows) \in Seq(RequestIds)
      BY <2>01, KeptType
    <3>2. [mem[t] EXCEPT !.rows = Kept(mem[t].rows)] \in Memory
      BY <2>0, <3>1, RowUpdates
    <3>3. mem' = [mem EXCEPT ![t] = [mem[t] EXCEPT !.rows = Kept(mem[t].rows)]]
      BY <2>17 DEF Prune
    <3>4. pc' \in [Threads -> Labels] /\ mem' \in [Threads -> Memory]
      BY <2>17, <3>2, <3>3 DEF Prune, Labels
    <3>5. files' \in SUBSET RequestIds
      BY <2>17 DEF Prune
    <3>6. QED
      BY <2>17, <3>4, <3>5 DEF Prune
  <2>18. CASE WriteIndex(t)
    <3>1. index' \in Seq(RequestIds) /\ Len(index') <= Keep
      <4>1. CASE pc[t] = "reindex"
        <5>1. <<>> \in Seq(RequestIds) /\ Len(<<>>) <= Keep
          BY DeskAssumption
        <5>2. index' = <<>>
          BY <2>18, <4>1 DEF WriteIndex
        <5>3. QED
          BY <5>1, <5>2
      <4>2. CASE pc[t] # "reindex"
        BY <2>18, <2>01, <4>2 DEF WriteIndex, Stocked
      <4>3. QED
        BY <4>1, <4>2
    <3>2. pc' \in [Threads -> Labels] /\ readable' \in BOOLEAN
      BY <2>18 DEF WriteIndex, Labels
    <3>3. QED
      BY <2>18, <3>1, <3>2 DEF WriteIndex
  <2>19. CASE Answer(t)
    <3>1. boards' \in SUBSET [pack : Soils, safe : Soils, hostile : Soils]
      BY <2>01, <2>19 DEF Answer
    <3>2. pc' \in [Threads -> Labels] /\ mem' \in [Threads -> Memory]
      BY <1>0, <2>19 DEF Answer, Labels
    <3>3. saved' \in SUBSET RequestIds
      BY <2>01, <2>19 DEF Answer
    <3>4. QED
      BY <2>19, <3>1, <3>2, <3>3 DEF Answer
  <2>20. QED
    BY <1>3, <2>1, <2>2, <2>3, <2>4, <2>5, <2>6, <2>7, <2>8, <2>9, <2>10, <2>11, <2>12, <2>13,
       <2>14, <2>15, <2>16, <2>17, <2>18, <2>19 DEF Step
<1>4. CASE Kill
  <2>1. kills' \in 0..MaxKills
    BY <1>4, DeskAssumption DEF Kill
  <2>2. 0 \in RequestIds
    BY DeskAssumption DEF RequestIds
  <2>3. pc' \in [Threads -> Labels] /\ mem' \in [Threads -> Memory]
    BY <1>0, <1>4 DEF Kill, Labels
  <2>4. QED
    BY <1>4, <2>1, <2>2, <2>3 DEF Kill
<1>5. CASE UNCHANGED vars
  BY <1>5 DEF vars
<1>6. QED
  BY <1>1, <1>2, <1>3, <1>4, <1>5, NextCases

\* What a request needs is stored before it is used, however requests interleave.
LEMMA StockedStep == TypeOK /\ Stocked /\ [Next]_vars => Stocked'
<1> SUFFICES ASSUME TypeOK, Stocked, [Next]_vars PROVE Stocked'
  OBVIOUS
<1> USE DEF Stocked, Goto, Finish, Raise, disk, log, bounds, shown
<1>0. Nothing.prev = FALSE
  BY DEF Nothing, Fresh
<1>1. ASSUME NEW t \in Threads, NEW p \in Soils, Dual(t, p) PROVE Stocked'
  BY <1>1, <1>0 DEF Dual, Arrive, Fresh, TypeOK, Memory
<1>2. ASSUME NEW t \in Threads, SaveOnly(t) PROVE Stocked'
  BY <1>2, <1>0 DEF SaveOnly, Arrive, Fresh, TypeOK, Memory
<1>3. ASSUME NEW t \in Threads, Step(t) PROVE Stocked'
  <2>0. mem[t] \in Memory
    BY DEF TypeOK
  <2>1. CASE Upload(t)
    <3>1. upload' # "absent"
      BY <2>0, <2>1, DeskAssumption DEF Upload, Memory, Soils
    <3>2. QED
      BY <2>0, <2>1, <3>1 DEF Upload, TypeOK, Memory
  <2>2. CASE Load(t)
    <3>1. upload # Default
      BY DeskAssumption DEF TypeOK, File
    <3>2. QED
      BY <1>0, <2>2, <3>1, LoadFrame
  <2>3. CASE Enter(t)
    BY <2>0, <2>3, <1>0 DEF Enter, TypeOK, Memory
  <2>4. CASE SetRoot(t)
    BY <2>0, <2>4, <1>0 DEF SetRoot, TypeOK, Memory
  <2>5. CASE Create(t)
    BY <2>0, <2>5, <1>0 DEF Create, TypeOK, Memory
  <2>6. CASE Attach(t)
    BY <2>6, AttachFrame, RaiseFrame DEF Same
  <2>7. CASE Materialize(t)
    <3>1. catalog' # "absent"
      BY <2>0, <2>7, DeskAssumption DEF Materialize, Memory, Soils
    <3>2. QED
      BY <2>0, <2>7, <3>1 DEF Materialize, TypeOK, Memory
  <2>8. CASE Point(t)
    BY <2>0, <2>8, <1>0 DEF Point, TypeOK, Memory
  <2>9. CASE Bind(t)
    <3>1. pc[t] = "bind" /\ UNCHANGED <<upload, catalog, override>>
      BY <2>9 DEF Bind
    <3>2. pc'[t] \in {"leave", "safe"} /\ mem'[t].prev = mem[t].prev
      BY <2>9, BindFrame, RaiseFrame DEF Same, TypeOK
    <3>3. catalog' # "absent" /\ (mem'[t].prev => catalog # "absent")
      BY <3>1, <3>2
    <3>4. QED
      BY <2>9, <3>1, <3>2, <3>3, BindFrame
  <2>10. ASSUME NEW ok \in BOOLEAN, Evaluate(t, ok) PROVE Stocked'
    BY <2>10, EvaluateFrame DEF Same
  <2>11. CASE Record(t)
    BY <2>11, AttachFrame, RaiseFrame DEF Same
  <2>12. CASE Leave(t)
    BY <2>0, <2>12, <1>0 DEF Leave, TypeOK, Memory
  <2>13. CASE Restore(t)
    BY <2>13, <1>0, RestoreFrame
  <2>14. CASE Publish(t)
    BY <2>0, <2>14, <1>0 DEF Publish, TypeOK, Memory
  <2>15. CASE WriteRow(t)
    BY <2>0, <2>15, <1>0 DEF WriteRow, TypeOK, Memory
  <2>16. CASE ReadIndex(t)
    BY <2>16, <1>0, ReadIndexFrame DEF Same
  <2>17. CASE Prune(t)
    <3>1. PICK q : Len(q) <= Keep /\ mem' = [mem EXCEPT ![t].rows = q]
      BY <2>0, <2>17, KeptType DEF Prune, Memory
    <3>2. QED
      BY <2>0, <2>17, <3>1 DEF Prune, TypeOK, Memory
  <2>18. CASE WriteIndex(t)
    BY <2>0, <2>18, <1>0 DEF WriteIndex, TypeOK, Memory
  <2>19. CASE Answer(t)
    BY <2>0, <2>19, <1>0 DEF Answer, TypeOK, Memory
  <2>20. QED
    BY <1>3, <2>1, <2>2, <2>3, <2>4, <2>5, <2>6, <2>7, <2>8, <2>9, <2>10, <2>11, <2>12, <2>13,
       <2>14, <2>15, <2>16, <2>17, <2>18, <2>19 DEF Step
<1>4. CASE Kill
  BY <1>4, <1>0 DEF Kill, TypeOK, Memory
<1>5. CASE UNCHANGED vars
  BY <1>5 DEF vars
<1>6. QED
  BY <1>1, <1>2, <1>3, <1>4, <1>5, NextCases

\* No step makes a project in the desk's own root.
LEMMA RootStep == TypeOK /\ Rooted /\ DeskUntouched /\ [Next]_vars => (Rooted /\ DeskUntouched)'
<1> SUFFICES ASSUME TypeOK, Rooted, DeskUntouched, [Next]_vars PROVE (Rooted /\ DeskUntouched)'
  OBVIOUS
<1> USE DEF Rooted, DeskUntouched, Goto, Finish, disk, log, bounds, shown
<1>1. ASSUME NEW t \in Threads, NEW p \in Soils, Dual(t, p) PROVE (Rooted /\ DeskUntouched)'
  <2>1. requests' # 0
    BY <1>1, DeskAssumption DEF Dual, Arrive, TypeOK, RequestIds
  <2>2. QED
    BY <1>1, <2>1 DEF Dual, Arrive, Fresh, TypeOK
<1>2. ASSUME NEW t \in Threads, SaveOnly(t) PROVE (Rooted /\ DeskUntouched)'
  <2>1. requests' # 0
    BY <1>2, DeskAssumption DEF SaveOnly, Arrive, TypeOK, RequestIds
  <2>2. QED
    BY <1>2, <2>1 DEF SaveOnly, Arrive, Fresh, TypeOK
<1>3. ASSUME NEW t \in Threads, Step(t) PROVE (Rooted /\ DeskUntouched)'
  <2>0. mem[t] \in Memory
    BY DEF TypeOK
  <2>1. CASE Upload(t)
    BY <2>0, <2>1 DEF Upload, TypeOK, Memory
  <2>2. CASE Load(t)
    BY <2>2, LoadFrame
  <2>3. CASE Enter(t)
    BY <2>0, <2>3 DEF Enter, TypeOK, Memory
  <2>4. CASE SetRoot(t)
    BY <2>0, <2>4 DEF SetRoot, TypeOK, Memory
  <2>5. CASE Create(t)
    <3>1. projects' = projects \cup {[id |-> mem[t].id, root |-> root, bound |-> FALSE]}
      BY <2>5 DEF Create
    <3>2. root # 0
      BY <2>5 DEF Create
    <3>3. \A p \in projects' : p.root # 0
      BY <3>1, <3>2
    <3>4. QED
      BY <2>5, <3>3 DEF Create, TypeOK
  <2>6. CASE Attach(t)
    <3>1. CASE Raise(t)
      BY <2>6, <3>1, AttachFrame, RaiseFrame DEF Same
    <3>2. CASE ~Raise(t)
      BY <2>6, <3>2, AttachFrame
    <3>3. QED
      BY <3>1, <3>2
  <2>7. CASE Materialize(t)
    BY <2>0, <2>7 DEF Materialize, TypeOK, Memory
  <2>8. CASE Point(t)
    BY <2>0, <2>8 DEF Point, TypeOK, Memory
  <2>9. CASE Bind(t)
    <3>1. \A p \in projects' : p.root # 0
      BY <2>9, BindFrame DEF Found
    <3>2. UNCHANGED root
      BY <2>9 DEF Bind
    <3>3. CASE Raise(t)
      BY <2>9, <3>1, <3>2, <3>3, RaiseFrame DEF Same, Bind
    <3>4. CASE ~Raise(t)
      BY <2>9, <3>1, <3>2, <3>4, BindFrame DEF Bind, TypeOK
    <3>5. QED
      BY <3>3, <3>4
  <2>10. ASSUME NEW ok \in BOOLEAN, Evaluate(t, ok) PROVE (Rooted /\ DeskUntouched)'
    BY <2>10, EvaluateFrame DEF Same
  <2>11. CASE Record(t)
    <3>1. CASE Raise(t)
      BY <2>11, <3>1, AttachFrame, RaiseFrame DEF Same
    <3>2. CASE ~Raise(t)
      BY <2>11, <3>2, AttachFrame
    <3>3. QED
      BY <3>1, <3>2
  <2>12. CASE Leave(t)
    BY <2>0, <2>12 DEF Leave, TypeOK, Memory
  <2>13. CASE Restore(t)
    BY <2>13, RestoreFrame
  <2>14. CASE Publish(t)
    BY <2>0, <2>14 DEF Publish, TypeOK, Memory
  <2>15. CASE WriteRow(t)
    BY <2>0, <2>15 DEF WriteRow, TypeOK, Memory
  <2>16. CASE ReadIndex(t)
    BY <2>16, ReadIndexFrame DEF Same
  <2>17. CASE Prune(t)
    BY <2>0, <2>17 DEF Prune, TypeOK, Memory
  <2>18. CASE WriteIndex(t)
    BY <2>0, <2>18 DEF WriteIndex, TypeOK, Memory
  <2>19. CASE Answer(t)
    BY <2>0, <2>19 DEF Answer, TypeOK, Memory
  <2>20. QED
    BY <1>3, <2>1, <2>2, <2>3, <2>4, <2>5, <2>6, <2>7, <2>8, <2>9, <2>10, <2>11, <2>12, <2>13,
       <2>14, <2>15, <2>16, <2>17, <2>18, <2>19 DEF Step
<1>4. CASE Kill
  BY <1>4 DEF Kill, TypeOK, Memory
<1>5. CASE UNCHANGED vars
  BY <1>5 DEF vars
<1>6. QED
  BY <1>1, <1>2, <1>3, <1>4, <1>5, NextCases

\* A server that just started keeps nothing to disagree with.
LEMMA RootInit == Init => Rooted /\ DeskUntouched
BY DEF Init, Rooted, DeskUntouched

\* Every variable of the server keeps its type, however requests interleave.
THEOREM DeskTypes == Spec => []TypeOK
<1>1. TypeOK /\ Stocked /\ [Next]_vars => (TypeOK /\ Stocked)'
  BY TypeStep, StockedStep
<1>2. QED
  BY <1>1, TypeInit, PTL DEF Spec

\* The dual socket makes and changes no project in the desk's own root,
\* however requests interleave, fail and are killed (dual_socket_v1.py:154).
THEOREM DeskIsUntouched == Spec => []DeskUntouched
<1>1. TypeOK /\ Rooted /\ DeskUntouched /\ [Next]_vars => (Rooted /\ DeskUntouched)'
  BY RootStep
<1>2. QED
  BY <1>1, DeskTypes, RootInit, PTL DEF Spec

-----------------------------------------------------------------------------
(* One request at a time.                                                  *)

LEMMA AloneStep == ~Overlap /\ TypeOK /\ Alone /\ [Next]_vars => Alone'
<1> SUFFICES ASSUME ~Overlap, TypeOK, Alone, [Next]_vars PROVE Alone'
  OBVIOUS
<1> USE DEF Alone, Goto, Finish, disk, log, bounds, shown
<1>1. ASSUME NEW t \in Threads, NEW p \in Soils, Dual(t, p) PROVE Alone'
  <2>1. requests' = requests + 1 /\ requests \in Nat
    BY <1>1, DeskAssumption DEF Dual, Arrive, TypeOK, RequestIds
  <2>2. \A q \in projects : q.id \in Nat
    BY DeskAssumption DEF TypeOK, RequestIds, Project
  <2>3. \A q \in projects' : q.id <= requests'
    BY <1>1, <2>1, <2>2 DEF Dual, Arrive
  <2>4. QED
    BY <1>1, <2>3 DEF Dual, Arrive, Quiet, Fresh, TypeOK
<1>2. ASSUME NEW t \in Threads, SaveOnly(t) PROVE Alone'
  <2>1. requests' = requests + 1 /\ requests \in Nat
    BY <1>2, DeskAssumption DEF SaveOnly, Arrive, TypeOK, RequestIds
  <2>2. \A p \in projects : p.id \in Nat
    BY DeskAssumption DEF TypeOK, RequestIds, Project
  <2>3. \A p \in projects' : p.id <= requests'
    BY <1>2, <2>1, <2>2 DEF SaveOnly, Arrive
  <2>4. QED
    BY <1>2, <2>3 DEF SaveOnly, Arrive, Quiet, Fresh, TypeOK
<1>3. ASSUME NEW t \in Threads, Step(t) PROVE Alone'
  <2>0. mem[t] \in Memory
    BY DEF TypeOK
  <2>1. CASE Upload(t)
    BY <2>0, <2>1 DEF Upload, TypeOK, Memory
  <2>2. CASE Load(t)
    BY <2>2, LoadFrame
  <2>3. CASE Enter(t)
    BY <2>0, <2>3 DEF Enter, TypeOK, Memory
  <2>4. CASE SetRoot(t)
    BY <2>0, <2>4 DEF SetRoot, TypeOK, Memory
  <2>5. CASE Create(t)
    <3>1. requests \in Nat /\ mem[t].id = requests
      BY <2>5, DeskAssumption DEF Create, TypeOK, RequestIds
    <3>2. \A p \in projects' : p.id <= requests'
      BY <2>5, <3>1 DEF Create
    <3>3. QED
      BY <2>5, <3>2 DEF Create, TypeOK
  <2>6. CASE Attach(t)
    BY <2>6, AttachFrame, RaiseFrame DEF Same
  <2>7. CASE Materialize(t)
    BY <2>0, <2>7 DEF Materialize, TypeOK, Memory
  <2>8. CASE Point(t)
    BY <2>0, <2>8 DEF Point, TypeOK, Memory
  <2>9. CASE Bind(t)
    <3>1. \A p \in projects' : p.id <= requests'
      <4>1. UNCHANGED requests
        BY <2>9 DEF Bind
      <4>2. \A o \in Found(t) : o.id <= requests
        BY DEF Found
      <4>3. QED
        BY <2>9, <4>1, <4>2, BindFrame
    <3>2. pc[t] # "idle" /\ UNCHANGED requests
      BY <2>9 DEF Bind
    <3>3. mem'[t].id = mem[t].id
      BY <2>9, BindFrame, RaiseFrame DEF Same
    <3>4. QED
      BY <2>9, <3>1, <3>2, <3>3, BindFrame
  <2>10. ASSUME NEW ok \in BOOLEAN, Evaluate(t, ok) PROVE Alone'
    BY <2>10, EvaluateFrame DEF Same
  <2>11. CASE Record(t)
    BY <2>11, AttachFrame, RaiseFrame DEF Same
  <2>12. CASE Leave(t)
    BY <2>0, <2>12 DEF Leave, TypeOK, Memory
  <2>13. CASE Restore(t)
    BY <2>13, RestoreFrame
  <2>14. CASE Publish(t)
    BY <2>0, <2>14 DEF Publish, TypeOK, Memory
  <2>15. CASE WriteRow(t)
    BY <2>0, <2>15 DEF WriteRow, TypeOK, Memory
  <2>16. CASE ReadIndex(t)
    BY <2>16, ReadIndexFrame DEF Same
  <2>17. CASE Prune(t)
    BY <2>0, <2>17 DEF Prune, TypeOK, Memory
  <2>18. CASE WriteIndex(t)
    BY <2>0, <2>18 DEF WriteIndex, TypeOK, Memory
  <2>19. CASE Answer(t)
    BY <2>0, <2>19 DEF Answer, TypeOK, Memory
  <2>20. QED
    BY <1>3, <2>1, <2>2, <2>3, <2>4, <2>5, <2>6, <2>7, <2>8, <2>9, <2>10, <2>11, <2>12, <2>13,
       <2>14, <2>15, <2>16, <2>17, <2>18, <2>19 DEF Step
<1>4. CASE Kill
  BY <1>4 DEF Kill, TypeOK, Memory
<1>5. CASE UNCHANGED vars
  BY <1>5 DEF vars
<1>6. QED
  BY <1>1, <1>2, <1>3, <1>4, <1>5, NextCases

\* The override is the one request's.
LEMMA OverriddenStep == ~Overlap /\ TypeOK /\ Alone /\ Overridden /\ [Next]_vars => Overridden'
<1> SUFFICES ASSUME ~Overlap, TypeOK, Alone, Overridden, [Next]_vars PROVE Overridden'
  OBVIOUS
<1> USE DEF Alone, Overridden, Overriding, Quiet, Goto, Finish, disk, log, bounds, shown
<1>0. Nothing.prev = FALSE
  BY DEF Nothing, Fresh
<1>1. ASSUME NEW t \in Threads, NEW p \in Soils, Dual(t, p) PROVE Overridden'
  BY <1>1, <1>0 DEF Dual, Arrive, Fresh, TypeOK, Memory
<1>2. ASSUME NEW t \in Threads, SaveOnly(t) PROVE Overridden'
  BY <1>2, <1>0 DEF SaveOnly, Arrive, Fresh, TypeOK, Memory
<1>3. ASSUME NEW t \in Threads, Step(t) PROVE Overridden'
  <2>0. mem[t] \in Memory
    BY DEF TypeOK
  <2>1. CASE Upload(t)
    BY <2>0, <2>1, <1>0 DEF Upload, TypeOK, Memory
  <2>2. CASE Load(t)
    BY <1>0, <2>2, LoadFrame
  <2>3. CASE Enter(t)
    BY <2>0, <2>3, <1>0 DEF Enter, TypeOK, Memory
  <2>4. CASE SetRoot(t)
    BY <2>0, <2>4, <1>0 DEF SetRoot, TypeOK, Memory
  <2>5. CASE Create(t)
    BY <2>0, <2>5, <1>0 DEF Create, TypeOK, Memory
  <2>6. CASE Attach(t)
    <3>1. CASE Raise(t)
      BY <2>6, <3>1, AttachFrame, RaiseFrame DEF Same
    <3>2. CASE ~Raise(t)
      BY <2>6, <3>2, AttachFrame
    <3>3. QED
      BY <3>1, <3>2
  <2>7. CASE Materialize(t)
    BY <2>0, <2>7, <1>0 DEF Materialize, TypeOK, Memory
  <2>8. CASE Point(t)
    BY <2>0, <2>8, <1>0 DEF Point, TypeOK, Memory
  <2>9. CASE Bind(t)
    <3>1. pc[t] = "bind" /\ UNCHANGED override
      BY <2>9 DEF Bind
    <3>2. pc'[t] \in {"leave", "safe"} /\ mem'[t].prev = mem[t].prev
      BY <2>9, BindFrame, RaiseFrame DEF Same, TypeOK
    <3>3. QED
      BY <2>9, <3>1, <3>2, BindFrame
  <2>10. ASSUME NEW ok \in BOOLEAN, Evaluate(t, ok) PROVE Overridden'
    BY <2>10, EvaluateFrame DEF Same
  <2>11. CASE Record(t)
    <3>1. CASE Raise(t)
      BY <2>11, <3>1, AttachFrame, RaiseFrame DEF Same
    <3>2. CASE ~Raise(t)
      BY <2>11, <3>2, AttachFrame
    <3>3. QED
      BY <3>1, <3>2
  <2>12. CASE Leave(t)
    BY <2>0, <2>12, <1>0 DEF Leave, TypeOK, Memory
  <2>13. CASE Restore(t)
    BY <2>13, <1>0, RestoreFrame
  <2>14. CASE Publish(t)
    BY <2>0, <2>14, <1>0 DEF Publish, TypeOK, Memory
  <2>15. CASE WriteRow(t)
    BY <2>0, <2>15, <1>0 DEF WriteRow, TypeOK, Memory
  <2>16. CASE ReadIndex(t)
    BY <2>16, <1>0, ReadIndexFrame DEF Same
  <2>17. CASE Prune(t)
    BY <2>0, <2>17, <1>0 DEF Prune, TypeOK, Memory
  <2>18. CASE WriteIndex(t)
    BY <2>0, <2>18, <1>0 DEF WriteIndex, TypeOK, Memory
  <2>19. CASE Answer(t)
    BY <2>0, <2>19, <1>0 DEF Answer, TypeOK, Memory
  <2>20. QED
    BY <1>3, <2>1, <2>2, <2>3, <2>4, <2>5, <2>6, <2>7, <2>8, <2>9, <2>10, <2>11, <2>12, <2>13,
       <2>14, <2>15, <2>16, <2>17, <2>18, <2>19 DEF Step
<1>4. CASE Kill
  BY <1>4, <1>0 DEF Kill, TypeOK, Memory
<1>5. CASE UNCHANGED vars
  BY <1>5 DEF vars
<1>6. QED
  BY <1>1, <1>2, <1>3, <1>4, <1>5, NextCases

\* So are the globals: its project is where the desk looks for it.
LEMMA PlacedStep == ~Overlap /\ TypeOK /\ Alone /\ Placed /\ [Next]_vars => Placed'
<1> SUFFICES ASSUME ~Overlap, TypeOK, Alone, Placed, [Next]_vars PROVE Placed'
  OBVIOUS
<1> USE DEF Alone, Placed, Quiet, Goto, Finish, disk, log, bounds, shown
<1>1. ASSUME NEW t \in Threads, NEW p \in Soils, Dual(t, p) PROVE Placed'
  BY <1>1 DEF Dual, Arrive, Fresh, TypeOK, Memory
<1>2. ASSUME NEW t \in Threads, SaveOnly(t) PROVE Placed'
  BY <1>2 DEF SaveOnly, Arrive, Fresh, TypeOK, Memory
<1>3. ASSUME NEW t \in Threads, Step(t) PROVE Placed'
  <2>0. mem[t] \in Memory
    BY DEF TypeOK
  <2>1. CASE Upload(t)
    BY <2>0, <2>1 DEF Upload, TypeOK, Memory
  <2>2. CASE Load(t)
    BY <2>2, LoadFrame
  <2>3. CASE Enter(t)
    BY <2>0, <2>3 DEF Enter, TypeOK, Memory
  <2>4. CASE SetRoot(t)
    BY <2>0, <2>4 DEF SetRoot, TypeOK, Memory
  <2>5. CASE Create(t)
    <3>1. projects' = projects \cup {[id |-> mem[t].id, root |-> root, bound |-> FALSE]}
      BY <2>5 DEF Create
    <3>2. root = mem[t].id
      BY <2>5 DEF Create
    <3>3. \A p \in projects' : p.root = p.id
      BY <3>1, <3>2
    <3>4. QED
      BY <2>5, <3>3 DEF Create, TypeOK
  <2>6. CASE Attach(t)
    <3>1. CASE Raise(t)
      BY <2>6, <3>1, AttachFrame, RaiseFrame DEF Same
    <3>2. CASE ~Raise(t)
      BY <2>6, <3>2, AttachFrame
    <3>3. QED
      BY <3>1, <3>2
  <2>7. CASE Materialize(t)
    BY <2>0, <2>7 DEF Materialize, TypeOK, Memory
  <2>8. CASE Point(t)
    BY <2>0, <2>8 DEF Point, TypeOK, Memory
  <2>9. CASE Bind(t)
    <3>1. \A p \in projects' : p.root = p.id
      BY <2>9, BindFrame DEF Found
    <3>2. pc[t] = "bind" /\ pc'[t] \in {"leave", "safe"} /\ UNCHANGED root
      BY <2>9, BindFrame, RaiseFrame DEF Same, TypeOK, Bind
    <3>3. QED
      BY <2>9, <3>1, <3>2, BindFrame
  <2>10. ASSUME NEW ok \in BOOLEAN, Evaluate(t, ok) PROVE Placed'
    BY <2>10, EvaluateFrame DEF Same
  <2>11. CASE Record(t)
    <3>1. CASE Raise(t)
      BY <2>11, <3>1, AttachFrame, RaiseFrame DEF Same
    <3>2. CASE ~Raise(t)
      BY <2>11, <3>2, AttachFrame
    <3>3. QED
      BY <3>1, <3>2
  <2>12. CASE Leave(t)
    BY <2>0, <2>12 DEF Leave, TypeOK, Memory
  <2>13. CASE Restore(t)
    BY <2>13, RestoreFrame
  <2>14. CASE Publish(t)
    BY <2>0, <2>14 DEF Publish, TypeOK, Memory
  <2>15. CASE WriteRow(t)
    BY <2>0, <2>15 DEF WriteRow, TypeOK, Memory
  <2>16. CASE ReadIndex(t)
    BY <2>16, ReadIndexFrame DEF Same
  <2>17. CASE Prune(t)
    BY <2>0, <2>17 DEF Prune, TypeOK, Memory
  <2>18. CASE WriteIndex(t)
    BY <2>0, <2>18 DEF WriteIndex, TypeOK, Memory
  <2>19. CASE Answer(t)
    BY <2>0, <2>19 DEF Answer, TypeOK, Memory
  <2>20. QED
    BY <1>3, <2>1, <2>2, <2>3, <2>4, <2>5, <2>6, <2>7, <2>8, <2>9, <2>10, <2>11, <2>12, <2>13,
       <2>14, <2>15, <2>16, <2>17, <2>18, <2>19 DEF Step
<1>4. CASE Kill
  BY <1>4 DEF Kill, TypeOK, Memory
<1>5. CASE UNCHANGED vars
  BY <1>5 DEF vars
<1>6. QED
  BY <1>1, <1>2, <1>3, <1>4, <1>5, NextCases

\* What it bound to that project is its client's pack.
LEMMA OwnPackStep ==
  /\ ~Overlap /\ TypeOK /\ Stocked /\ Alone /\ Overridden /\ Placed /\ OwnPack
  /\ [Next]_vars
  => OwnPack'
<1> SUFFICES ASSUME ~Overlap, TypeOK, Stocked, Alone, Overridden, Placed, OwnPack, [Next]_vars
             PROVE  OwnPack'
  OBVIOUS
<1> USE DEF Alone, OwnPack, Goto, Finish, disk, log, bounds, shown, Quiet, Overridden, Overriding
<1>1. ASSUME NEW t \in Threads, NEW p \in Soils, Dual(t, p) PROVE OwnPack'
  <2>1. requests' = requests + 1 /\ requests \in Nat
    BY <1>1, DeskAssumption DEF Dual, Arrive, TypeOK, RequestIds
  <2>2. \A q \in projects : q.id # requests'
    BY <2>1, DeskAssumption DEF TypeOK, RequestIds, Project
  <2>3. /\ \A u \in Threads \ {t} : pc'[u] = "idle"
        /\ mem'[t].id = requests' /\ mem'[t].pack = p /\ mem'[t].got = Default
        /\ pc'[t] = IF p = Default THEN "enter" ELSE "upload"
        /\ UNCHANGED projects
    BY <1>1 DEF Dual, Arrive, Fresh, TypeOK
  <2>4. CASE p = Default
    BY <2>2, <2>3, <2>4
  <2>5. CASE p # Default
    BY <2>2, <2>3, <2>5
  <2>6. QED
    BY <2>4, <2>5
<1>2. ASSUME NEW t \in Threads, SaveOnly(t) PROVE OwnPack'
  <2>1. pc'[t] = "row" /\ \A u \in Threads \ {t} : pc'[u] = "idle"
    BY <1>2 DEF SaveOnly, Arrive, TypeOK
  <2>2. QED
    BY <2>1
<1>3. ASSUME NEW t \in Threads, Step(t) PROVE OwnPack'
  <2>0. mem[t] \in Memory
    BY DEF TypeOK
  <2>1. CASE Upload(t)
    BY <2>0, <2>1 DEF Upload, TypeOK, Memory
  <2>2. CASE Load(t)
    BY <2>2, LoadFrame
  <2>3. CASE Enter(t)
    BY <2>0, <2>3 DEF Enter, TypeOK, Memory
  <2>4. CASE SetRoot(t)
    BY <2>0, <2>4 DEF SetRoot, TypeOK, Memory
  <2>5. CASE Create(t)
    <3>1. projects' = projects \cup {[id |-> mem[t].id, root |-> root, bound |-> FALSE]}
      BY <2>5 DEF Create
    <3>2. \A p \in projects' : p.id = mem[t].id => ~p.bound
      BY <2>5, <3>1 DEF Create
    <3>3. /\ pc[t] = "create" /\ UNCHANGED <<mem, upload, catalog, override>>
          /\ pc'[t] = "attach" /\ \A u \in Threads \ {t} : pc'[u] = pc[u]
      BY <2>5 DEF Create, TypeOK
    <3>4. QED
      BY <3>2, <3>3
  <2>6. CASE Attach(t)
    <3>1. CASE Raise(t)
      BY <2>6, <3>1, AttachFrame, RaiseFrame DEF Same
    <3>2. CASE ~Raise(t)
      BY <2>6, <3>2, AttachFrame
    <3>3. QED
      BY <3>1, <3>2
  <2>7. CASE Materialize(t)
    <3>1. /\ UNCHANGED <<mem, projects, override, upload>>
          /\ \A u \in Threads \ {t} : pc'[u] = pc[u]
          /\ \/ pc[t] = "catalog" /\ pc'[t] = "overlay"
             \/ pc[t] = "overlay" /\ catalog' = mem[t].got /\ pc'[t] = "point"
      BY <2>7 DEF Materialize, TypeOK
    <3>2. QED
      BY <3>1
  <2>8. CASE Point(t)
    <3>1. /\ pc[t] = "point" /\ pc'[t] = "bind" /\ UNCHANGED <<upload, catalog, projects, mem>>
          /\ \A u \in Threads \ {t} : pc'[u] = pc[u] /\ pc[u] = "idle"
      BY <2>8 DEF Point, TypeOK
    <3>2. QED
      BY <3>1
  <2>9. CASE Bind(t)
    <3>1. pc[t] = "bind" /\ UNCHANGED <<catalog, override>>
      BY <2>9 DEF Bind
    <3>2. mem[t].pack # Default /\ catalog = mem[t].pack
      BY <3>1 DEF Stocked
    <3>3. CASE Raise(t)
      BY <2>9, <3>1, <3>3, BindFrame, RaiseFrame DEF Same
    <3>4. CASE ~Raise(t)
      <4>1. pc'[t] = "safe" /\ mem'[t].id = mem[t].id /\ mem'[t].pack = mem[t].pack
        BY <2>9, <3>4, BindFrame DEF TypeOK
      <4>2. \A p \in projects : p.id = mem[t].id => p \in Found(t)
        BY <3>1 DEF Placed, Found
      <4>3. \A p \in projects' : p.id = mem[t].id => p.bound
        BY <2>9, <3>4, <4>2, BindFrame
      <4>4. QED
        BY <2>9, <3>1, <3>2, <4>1, <4>3, BindFrame
    <3>5. QED
      BY <3>3, <3>4
  <2>10. ASSUME NEW ok \in BOOLEAN, Evaluate(t, ok) PROVE OwnPack'
    BY <2>10, EvaluateFrame DEF Same
  <2>11. CASE Record(t)
    <3>1. CASE Raise(t)
      BY <2>11, <3>1, AttachFrame, RaiseFrame DEF Same
    <3>2. CASE ~Raise(t)
      BY <2>11, <3>2, AttachFrame
    <3>3. QED
      BY <3>1, <3>2
  <2>12. CASE Leave(t)
    BY <2>0, <2>12 DEF Leave, TypeOK, Memory
  <2>13. CASE Restore(t)
    BY <2>13, RestoreFrame
  <2>14. CASE Publish(t)
    BY <2>0, <2>14 DEF Publish, TypeOK, Memory
  <2>15. CASE WriteRow(t)
    BY <2>0, <2>15 DEF WriteRow, TypeOK, Memory
  <2>16. CASE ReadIndex(t)
    BY <2>16, ReadIndexFrame DEF Same
  <2>17. CASE Prune(t)
    BY <2>0, <2>17 DEF Prune, TypeOK, Memory
  <2>18. CASE WriteIndex(t)
    BY <2>0, <2>18 DEF WriteIndex, TypeOK, Memory
  <2>19. CASE Answer(t)
    BY <2>0, <2>19 DEF Answer, TypeOK, Memory
  <2>20. QED
    BY <1>3, <2>1, <2>2, <2>3, <2>4, <2>5, <2>6, <2>7, <2>8, <2>9, <2>10, <2>11, <2>12, <2>13,
       <2>14, <2>15, <2>16, <2>17, <2>18, <2>19 DEF Step
<1>4. CASE Kill
  BY <1>4 DEF Kill, TypeOK, Memory
<1>5. CASE UNCHANGED vars
  BY <1>5 DEF vars
<1>6. QED
  BY <1>1, <1>2, <1>3, <1>4, <1>5, NextCases

\* What its soils were evaluated on, too.
LEMMA NumbersStep ==
  TypeOK /\ OwnPack /\ OwnNumbers /\ OwnSoils /\ [Next]_vars => (OwnNumbers /\ OwnSoils)'
<1> SUFFICES ASSUME TypeOK, OwnPack, OwnNumbers, OwnSoils, [Next]_vars
             PROVE  (OwnNumbers /\ OwnSoils)'
  OBVIOUS
<1> USE DEF OwnNumbers, OwnSoils, Goto, Finish, disk, log, bounds, shown
<1>1. ASSUME NEW t \in Threads, NEW p \in Soils, Dual(t, p) PROVE (OwnNumbers /\ OwnSoils)'
  BY <1>1 DEF Dual, Arrive, Fresh, TypeOK, Memory
<1>2. ASSUME NEW t \in Threads, SaveOnly(t) PROVE (OwnNumbers /\ OwnSoils)'
  BY <1>2 DEF SaveOnly, Arrive, Fresh, TypeOK, Memory
<1>3. ASSUME NEW t \in Threads, Step(t) PROVE (OwnNumbers /\ OwnSoils)'
  <2>0. mem[t] \in Memory
    BY DEF TypeOK
  <2>1. CASE Upload(t)
    BY <2>0, <2>1 DEF Upload, TypeOK, Memory
  <2>2. CASE Load(t)
    BY <2>2, LoadFrame
  <2>3. CASE Enter(t)
    BY <2>0, <2>3 DEF Enter, TypeOK, Memory
  <2>4. CASE SetRoot(t)
    BY <2>0, <2>4 DEF SetRoot, TypeOK, Memory
  <2>5. CASE Create(t)
    BY <2>0, <2>5 DEF Create, TypeOK, Memory
  <2>6. CASE Attach(t)
    <3>1. CASE Raise(t)
      BY <2>6, <3>1, AttachFrame, RaiseFrame DEF Same
    <3>2. CASE ~Raise(t)
      BY <2>6, <3>2, AttachFrame
    <3>3. QED
      BY <3>1, <3>2
  <2>7. CASE Materialize(t)
    BY <2>0, <2>7 DEF Materialize, TypeOK, Memory
  <2>8. CASE Point(t)
    BY <2>0, <2>8 DEF Point, TypeOK, Memory
  <2>9. CASE Bind(t)
    <3>1. pc'[t] \in {"leave", "safe"} /\ (pc'[t] = "leave" => mem'[t].failed)
      BY <2>9, BindFrame, RaiseFrame DEF TypeOK
    <3>2. UNCHANGED boards /\ \A u \in Threads \ {t} : pc'[u] = pc[u] /\ mem'[u] = mem[u]
      BY <2>9, BindFrame DEF Bind
    <3>3. QED
      BY <3>1, <3>2
  <2>10. ASSUME NEW ok \in BOOLEAN, Evaluate(t, ok) PROVE (OwnNumbers /\ OwnSoils)'
    <3>1. /\ pc[t] \in {"safe", "hostile"} /\ UNCHANGED boards
          /\ \A u \in Threads \ {t} : pc'[u] = pc[u] /\ mem'[u] = mem[u]
          /\ mem'[t].pack = mem[t].pack
      BY <2>10, EvaluateFrame DEF Same
    <3>2. CASE pc'[t] = "leave" /\ mem'[t].failed
      BY <3>1, <3>2
    <3>3. CASE \E p \in Found(t) :
                 \/ /\ pc[t] = "safe" /\ pc'[t] = "noted"
                    /\ mem'[t].safe = Source(p)
                 \/ /\ pc[t] = "hostile" /\ pc'[t] = "renoted"
                    /\ mem'[t].hostile = Source(p) /\ mem'[t].safe = mem[t].safe
      <4>1. \A p \in Found(t) : Source(p) = mem[t].pack
        BY <3>1 DEF Found, Source, OwnPack
      <4>2. QED
        BY <3>1, <3>3, <4>1
    <3>4. QED
      BY <2>10, <3>2, <3>3, EvaluateFrame
  <2>11. CASE Record(t)
    <3>1. CASE Raise(t)
      BY <2>11, <3>1, AttachFrame, RaiseFrame DEF Same
    <3>2. CASE ~Raise(t)
      BY <2>11, <3>2, AttachFrame
    <3>3. QED
      BY <3>1, <3>2
  <2>12. CASE Leave(t)
    BY <2>0, <2>12 DEF Leave, TypeOK, Memory
  <2>13. CASE Restore(t)
    <3>1. /\ pc[t] = "restore" /\ UNCHANGED boards
          /\ \A u \in Threads \ {t} : pc'[u] = pc[u] /\ mem'[u] = mem[u]
          /\ \/ pc'[t] = "idle"
             \/ pc'[t] = "receipt" /\ mem'[t] = mem[t] /\ ~mem[t].failed
      BY <2>13, RestoreFrame
    <3>2. OwnSoils'
      BY <3>1
    <3>3. OwnNumbers'
      BY <3>1
    <3>4. QED
      BY <3>2, <3>3
  <2>14. CASE Publish(t)
    BY <2>0, <2>14 DEF Publish, TypeOK, Memory
  <2>15. CASE WriteRow(t)
    BY <2>0, <2>15 DEF WriteRow, TypeOK, Memory
  <2>16. CASE ReadIndex(t)
    BY <2>16, ReadIndexFrame DEF Same
  <2>17. CASE Prune(t)
    BY <2>0, <2>17 DEF Prune, TypeOK, Memory
  <2>18. CASE WriteIndex(t)
    BY <2>0, <2>18 DEF WriteIndex, TypeOK, Memory
  <2>19. CASE Answer(t)
    <3>1. \A b \in boards' : b.safe = b.pack /\ b.hostile = b.pack
      BY <2>19 DEF Answer
    <3>2. pc'[t] = "idle" /\ \A u \in Threads \ {t} : pc'[u] = pc[u] /\ mem'[u] = mem[u]
      BY <2>19 DEF Answer, TypeOK
    <3>3. QED
      BY <3>1, <3>2
  <2>20. QED
    BY <1>3, <2>1, <2>2, <2>3, <2>4, <2>5, <2>6, <2>7, <2>8, <2>9, <2>10, <2>11, <2>12, <2>13,
       <2>14, <2>15, <2>16, <2>17, <2>18, <2>19 DEF Step
<1>4. CASE Kill
  BY <1>4 DEF Kill, TypeOK, Memory
<1>5. CASE UNCHANGED vars
  BY <1>5 DEF vars
<1>6. QED
  BY <1>1, <1>2, <1>3, <1>4, <1>5, NextCases

LEMMA SerialInit == Init => SerialInv
<1>1. Init => Alone /\ Placed
  BY DEF Init, Alone, Placed
<1>2. Init => Overridden
  BY DEF Init, Overridden, Nothing, Fresh
<1>3. Init => OwnPack /\ OwnNumbers /\ OwnSoils
  BY DEF Init, OwnPack, OwnNumbers, OwnSoils
<1>4. QED
  BY <1>1, <1>2, <1>3 DEF SerialInv

LEMMA SerialStep ==
  ~Overlap /\ TypeOK /\ Stocked /\ SerialInv /\ [Next]_vars => SerialInv'
BY AloneStep, OverriddenStep, PlacedStep, OwnPackStep, NumbersStep DEF SerialInv

LEMMA SerialHolds == ASSUME ~Overlap PROVE Spec => [](TypeOK /\ SerialInv)
<1>1. ~Overlap
  OBVIOUS
<1>2. TypeOK /\ Stocked /\ SerialInv /\ [Next]_vars => (TypeOK /\ Stocked /\ SerialInv)'
  BY <1>1, TypeStep, StockedStep, SerialStep
<1>3. QED
  BY <1>2, TypeInit, SerialInit, PTL DEF Spec

\* When requests do not overlap, both soils of every answered board were
\* evaluated on the catalog of its own client (dual_owned_soils_v1.py:304).
THEOREM SerialOwnSoils == ASSUME ~Overlap PROVE Spec => []OwnSoils
<1>1. TypeOK /\ SerialInv => OwnSoils
  BY DEF SerialInv
<1>2. QED
  BY <1>1, SerialHolds, PTL

\* When requests do not overlap, the override is off between requests,
\* however the last one ended (dual_socket_v1.py:241).
THEOREM SerialOverrideBack == ASSUME ~Overlap PROVE Spec => []OverrideBack
<1>1. TypeOK /\ SerialInv => OverrideBack
  BY DEF SerialInv, Overridden, Overriding, OverrideBack, Quiet
<1>2. QED
  BY <1>1, SerialHolds, PTL
-----------------------------------------------------------------------------
(* The run log, one request at a time.                                     *)

\* A newer row at the head of a log that was whole, cut to Keep rows.
LEMMA Pushed ==
  ASSUME NEW n \in RequestIds, NEW s \in Seq(RequestIds), saved \in SUBSET RequestIds,
         Descending(s), Retained(s), Len(s) <= Keep, \A i \in DOMAIN s : s[i] < n
  PROVE  /\ Descending(Kept(<<n>> \o s)) /\ Retained(Kept(<<n>> \o s))
         /\ Len(Kept(<<n>> \o s)) > 0 /\ Kept(<<n>> \o s)[1] = n
         /\ \A i \in DOMAIN Kept(<<n>> \o s) : i > 1 => /\ i - 1 \in DOMAIN s
                                                        /\ Kept(<<n>> \o s)[i] = s[i - 1]
<1> DEFINE q == <<n>> \o s
           k == Kept(q)
<1>0. /\ Keep \in Nat \ {0} /\ RequestIds \subseteq Int /\ Len(s) \in Nat
      /\ DOMAIN s = 1..Len(s) /\ \A i \in DOMAIN s : s[i] \in Int
  BY DeskAssumption DEF RequestIds
<1>1. /\ q \in Seq(RequestIds) /\ Len(q) = Len(s) + 1
      /\ \A i \in 1..Len(q) : q[i] = IF i = 1 THEN n ELSE s[i - 1]
  OBVIOUS
<1> HIDE DEF q
<1>2. /\ Len(k) = IF Len(q) < Keep THEN Len(q) ELSE Keep
      /\ DOMAIN k = 1..Len(k) /\ \A i \in 1..Len(k) : k[i] = q[i]
  BY <1>0, <1>1 DEF Kept
<1> HIDE DEF k
<1>3. \A i \in 1..Len(k) : k[i] = IF i = 1 THEN n ELSE s[i - 1]
  BY <1>0, <1>1, <1>2
<1>4. Len(k) > 0 /\ k[1] = n /\ \A i \in DOMAIN k : i > 1 => i - 1 \in DOMAIN s /\ k[i] = s[i - 1]
  BY <1>0, <1>1, <1>2, <1>3
<1>5. Descending(k)
  <2> SUFFICES ASSUME NEW i \in DOMAIN k, NEW j \in DOMAIN k, i < j PROVE k[i] > k[j]
    BY DEF Descending
  <2>1. k[j] = s[j - 1] /\ j - 1 \in DOMAIN s
    BY <1>2, <1>4
  <2>2. CASE i = 1
    BY <1>0, <1>4, <2>1, <2>2
  <2>3. CASE i # 1
    <3>1. k[i] = s[i - 1] /\ i - 1 \in DOMAIN s /\ i - 1 < j - 1
      BY <1>2, <1>4, <2>3
    <3>2. QED
      BY <2>1, <3>1 DEF Descending
  <2>4. QED
    BY <2>2, <2>3
<1>6. Retained(k)
  <2> SUFFICES ASSUME NEW m \in saved
               PROVE  \/ \E i \in DOMAIN k : k[i] = m
                      \/ Len(k) = Keep /\ \A i \in DOMAIN k : k[i] > m
    BY DEF Retained
  <2>0. m \in Int
    BY <1>0
  <2>1. CASE \E i \in DOMAIN s : s[i] = m
    <3>1. PICK i \in DOMAIN s : s[i] = m
      BY <2>1
    <3>2. CASE i + 1 <= Len(k)
      <4>1. i + 1 \in DOMAIN k /\ k[i + 1] = m
        BY <1>0, <1>2, <1>3, <3>1, <3>2
      <4>2. QED
        BY <4>1
    <3>3. CASE i + 1 > Len(k)
      <4>1. Len(k) = Keep /\ i = Keep
        BY <1>0, <1>1, <1>2, <3>3
      <4>2. ASSUME NEW j \in DOMAIN k PROVE k[j] > m
        <5>1. CASE j = 1
          BY <1>0, <1>4, <3>1, <5>1
        <5>2. CASE j # 1
          <6>1. k[j] = s[j - 1] /\ j - 1 \in DOMAIN s /\ j - 1 < i
            BY <1>0, <1>2, <1>4, <4>1, <5>2
          <6>2. QED
            BY <3>1, <6>1 DEF Descending
        <5>3. QED
          BY <5>1, <5>2
      <4>3. QED
        BY <4>1, <4>2
    <3>4. QED
      BY <1>0, <1>2, <3>2, <3>3
  <2>2. CASE Len(s) = Keep /\ \A i \in DOMAIN s : s[i] > m
    <3>1. Len(k) = Keep
      BY <1>0, <1>1, <1>2, <2>2
    <3>2. n > m
      <4>1. 1 \in DOMAIN s
        BY <1>0, <2>2
      <4>2. s[1] > m /\ s[1] < n /\ s[1] \in Int /\ n \in Int
        BY <1>0, <2>2, <4>1
      <4>3. QED
        BY <2>0, <4>2
    <3>3. \A j \in DOMAIN k : k[j] > m
      BY <1>2, <1>4, <2>2, <3>2
    <3>4. QED
      BY <3>1, <3>3
  <2>3. QED
    BY <2>1, <2>2 DEF Retained
<1>7. QED
  BY <1>4, <1>5, <1>6 DEF k, q

LEMMA LogInit == Init => LogInv
BY DEF Init, LogInv, Descending, Retained, Filed, Rows

\* The labels at which a request has something to do with the log.
Logging == {"index", "prune", "reindex", "refill", "answer"}

\* A request that goes on or ends outside save_run leaves the log as it is.
LEMMA LogFrame ==
  ASSUME TypeOK, LogInv, NEW t \in Threads,
         UNCHANGED <<files, index, readable, saved, kills, requests>>,
         pc[t] \notin Logging \cup {"idle"}, pc'[t] \notin Logging,
         pc'[t] = "idle" \/ mem'[t].id = mem[t].id,
         \A u \in Threads \ {t} : pc'[u] = pc[u] /\ mem'[u] = mem[u]
  PROVE  LogInv'
<1>1. Descending(index)' /\ (readable => Retained(index))'
  BY DEF LogInv, Descending, Retained
<1>2. Filed'
  BY DEF LogInv, Filed, Logging
<1>3. (\A i \in DOMAIN index : index[i] <= requests)'
  BY DEF LogInv
<1>4. Rows'
  <2> SUFFICES ASSUME NEW u \in Threads PROVE Rows!(u)'
    BY DEF Rows
  <2>1. CASE u = t
    BY <2>1 DEF LogInv, Rows, Logging
  <2>2. CASE u # t
    <3>1. pc'[u] = pc[u] /\ mem'[u] = mem[u]
      BY <2>2
    <3>2. Rows!(u)
      BY DEF LogInv, Rows
    <3>3. QED
      BY <3>1, <3>2 DEF Descending, Retained
  <2>3. QED
    BY <2>1, <2>2
<1>5. QED
  BY <1>1, <1>2, <1>3, <1>4 DEF LogInv

\* A request arrives: it is newer than every row.
LEMMA ArriveLog ==
  ASSUME ~Overlap, TypeOK, LogInv, NEW t \in Threads, Arrive(t),
         mem'[t].id = requests', pc'[t] \notin Logging \cup {"idle"},
         \A u \in Threads \ {t} : pc'[u] = pc[u] /\ mem'[u] = mem[u]
  PROVE  LogInv'
<1>0. /\ UNCHANGED <<files, index, readable, saved, kills>> /\ Quiet
      /\ requests' = requests + 1 /\ requests \in Nat
      /\ \A i \in DOMAIN index : index[i] \in Nat
  BY DeskAssumption DEF Arrive, disk, shown, TypeOK, RequestIds
<1>1. Descending(index)' /\ (readable => Retained(index))'
  BY <1>0 DEF LogInv, Descending, Retained
<1>2. Filed'
  BY <1>0 DEF LogInv, Filed, Quiet
<1>3. (\A i \in DOMAIN index : index[i] <= requests)'
  BY <1>0 DEF LogInv
<1>4. \A i \in DOMAIN index : index[i] < requests'
  BY <1>0 DEF LogInv
<1>5. Rows'
  BY <1>0, <1>4 DEF Rows, Logging, Quiet
<1>6. QED
  BY <1>1, <1>2, <1>3, <1>5 DEF LogInv

\* The steps of save_run, one request at a time.
LEMMA SaveLog ==
  ASSUME TypeOK, Alone, LogInv, NEW t \in Threads,
         WriteRow(t) \/ ReadIndex(t) \/ Prune(t) \/ WriteIndex(t) \/ Answer(t)
  PROVE  LogInv'
<1> USE DEF Goto, Finish, disk, log, bounds, shown
<1>0. /\ mem[t] \in Memory /\ mem[t].id \in RequestIds /\ RequestIds \subseteq Nat /\ saved \in SUBSET RequestIds
      /\ index \in Seq(RequestIds) /\ Len(index) <= Keep /\ Keep \in Nat \ {0}
      /\ pc[t] # "idle" /\ mem[t].id = requests
  BY DeskAssumption DEF TypeOK, Memory, RequestIds, Alone, WriteRow, ReadIndex, Prune, WriteIndex, Answer
<1>01. \A u \in Threads \ {t} : pc[u] = "idle"
  BY <1>0 DEF Alone
<1>1. CASE WriteRow(t)
  <2>1. /\ UNCHANGED <<index, readable, saved, kills, requests, mem>>
        /\ files' = files \cup {mem[t].id} /\ pc[t] = "row" /\ pc' = [pc EXCEPT ![t] = "index"]
    BY <1>1 DEF WriteRow
  <2>2. (Descending(index) /\ (readable => Retained(index)))'
    BY <2>1 DEF LogInv, Descending, Retained
  <2>3. Filed'
    BY <2>1 DEF LogInv, Filed, TypeOK
  <2>4. Rows'
    BY <1>01, <2>1 DEF LogInv, Rows, TypeOK
  <2>5. QED
    BY <2>1, <2>2, <2>3, <2>4 DEF LogInv
<1>2. CASE ReadIndex(t)
  <2> DEFINE q == <<mem[t].id>> \o index
  <2>1. /\ UNCHANGED <<files, index, readable, saved, kills, requests>> /\ pc[t] = "index"
        /\ \A u \in Threads \ {t} : pc'[u] = "idle"
        /\ pc'[t] = "idle" \/ (readable /\ pc'[t] = "prune")
    BY <1>01, <1>2, ReadIndexFrame DEF ReadIndex, TypeOK
  <2>2. pc'[t] = "prune" => mem'[t].rows = q /\ mem'[t].id = mem[t].id
    BY <1>0, <1>2, <2>1 DEF ReadIndex, TypeOK, Memory
  <2> HIDE DEF q
  <2>3. (Descending(index) /\ (readable => Retained(index)))'
    BY <2>1 DEF LogInv, Descending, Retained
  <2>4. Filed'
    BY <1>01, <2>1 DEF LogInv, Filed
  <2>5. Rows'
    BY <1>01, <2>1, <2>2 DEF LogInv, Rows, q
  <2>6. QED
    BY <2>1, <2>3, <2>4, <2>5 DEF LogInv
<1>3. CASE Prune(t)
  <2> DEFINE q == <<mem[t].id>> \o index
             k == Kept(q)
  <2>0. /\ pc[t] = "prune" /\ mem[t].rows = q /\ readable /\ mem[t].id \in files
        /\ Descending(index) /\ Retained(index) /\ \A i \in DOMAIN index : index[i] < mem[t].id
    BY <1>3 DEF Prune, LogInv, Rows
  <2>1. /\ UNCHANGED <<index, readable, saved, kills, requests>>
        /\ pc' = [pc EXCEPT ![t] = "reindex"] /\ mem' = [mem EXCEPT ![t].rows = k]
        /\ files' = files \ {q[i] : i \in (Keep + 1)..Len(q)}
    BY <1>3, <2>0 DEF Prune
  <2>2. /\ Descending(k) /\ Retained(k) /\ Len(k) > 0 /\ k[1] = mem[t].id
        /\ \A i \in DOMAIN k : i > 1 => i - 1 \in DOMAIN index /\ k[i] = index[i - 1]
        /\ k \in Seq(RequestIds) /\ Len(k) <= Keep
    <3>1. q \in Seq(RequestIds)
      BY <1>0
    <3>2. k \in Seq(RequestIds) /\ Len(k) <= Keep
      BY <3>1, KeptType
    <3>3. QED
      BY <1>0, <2>0, <3>2, Pushed
  <2>3. /\ Len(q) = Len(index) + 1
        /\ \A i \in (Keep + 1)..Len(q) : i - 1 \in DOMAIN index /\ i - 1 >= Keep
                                         /\ q[i] = index[i - 1]
    BY <1>0
  <2> HIDE DEF k, q
  <2>4. \A i \in (Keep + 1)..Len(q) : q[i] = index[Keep] /\ Keep \in DOMAIN index
    BY <1>0, <2>3
  <2>5. mem[t].id \in files'
    BY <1>0, <2>0, <2>1, <2>4
  <2>6. \A i \in DOMAIN index : i # Keep => index[i] \in files'
    <3> SUFFICES ASSUME NEW i \in DOMAIN index, i # Keep PROVE index[i] \in files'
      OBVIOUS
    <3>1. index[i] \in files
      BY DEF LogInv, Filed
    <3>2. i \in 1..Len(index) /\ i < Keep
      BY <1>0
    <3>3. ASSUME Keep \in DOMAIN index PROVE index[i] # index[Keep]
      <4>1. index[i] > index[Keep]
        BY <2>0, <3>2, <3>3 DEF Descending
      <4>2. index[i] \in RequestIds /\ index[Keep] \in RequestIds
        BY <1>0, <3>3
      <4>3. index[i] \in Nat /\ index[Keep] \in Nat
        BY <1>0, <4>2
      <4>4. QED
        BY <4>1, <4>3
    <3>4. QED
      BY <2>1, <2>4, <3>1, <3>3
  <2>7. \A i \in DOMAIN k : k[i] \in files'
    <3> SUFFICES ASSUME NEW i \in DOMAIN k PROVE k[i] \in files'
      OBVIOUS
    <3>1. i \in 1..Len(k) /\ i <= Keep
      BY <1>0, <2>2
    <3>2. CASE i = 1
      BY <2>2, <2>5, <3>2
    <3>3. CASE i # 1
      BY <1>0, <2>2, <2>6, <3>1, <3>3
    <3>4. QED
      BY <3>2, <3>3
  <2>8. (Descending(index) /\ (readable => Retained(index)))'
    BY <2>1 DEF LogInv, Descending, Retained
  <2>9. Filed'
    BY <2>1, <2>6 DEF Filed, TypeOK
  <2>10. mem'[t].id = mem[t].id /\ mem'[t].rows = k
    BY <1>0, <2>1 DEF TypeOK, Memory
  <2>11. (Descending(k) /\ Retained(k))'
    BY <2>1, <2>2 DEF Retained, Descending, k, q
  <2>12. Rows'
    BY <1>01, <2>0, <2>1, <2>2, <2>5, <2>7, <2>10, <2>11 DEF Rows, TypeOK, Descending, Retained
  <2>13. QED
    BY <2>1, <2>8, <2>9, <2>12 DEF LogInv
<1>4. CASE WriteIndex(t)
  <2>1. /\ UNCHANGED <<files, saved, kills, requests, mem>>
        /\ \A u \in Threads \ {t} : pc'[u] = "idle"
        /\ \/ pc[t] = "reindex" /\ pc'[t] = "refill" /\ ~readable' /\ index' = <<>>
           \/ pc[t] = "refill" /\ pc'[t] = "answer" /\ readable' /\ index' = mem[t].rows
    BY <1>01, <1>4 DEF WriteIndex, TypeOK
  <2>2. CASE pc[t] = "reindex"
    <3>1. DOMAIN index' = {}
      BY <2>1, <2>2
    <3>2. Rows'
      BY <2>1, <2>2, <3>1 DEF LogInv, Rows, Retained, Descending
    <3>3. QED
      BY <2>1, <2>2, <3>1, <3>2 DEF LogInv, Descending, Filed
  <2>3. CASE pc[t] = "refill"
    <3>0. mem[t].rows \in Seq(RequestIds) /\ index' = mem[t].rows /\ pc'[t] = "answer" /\ readable'
      BY <1>0, <2>1, <2>3 DEF Memory
    <3>1. /\ Descending(mem[t].rows) /\ Retained(mem[t].rows)
          /\ Len(mem[t].rows) > 0 /\ mem[t].rows[1] = mem[t].id
          /\ \A i \in DOMAIN mem[t].rows : mem[t].rows[i] \in files
      BY <2>3 DEF LogInv, Rows
    <3>2. 1 \in DOMAIN index' /\ index'[1] = mem[t].id
      BY <3>0, <3>1
    <3>3. \A i \in DOMAIN index' : index'[i] <= requests'
      <4> SUFFICES ASSUME NEW i \in DOMAIN index' PROVE index'[i] <= requests'
        OBVIOUS
      <4>0. index' \in Seq(RequestIds) /\ i \in 1..Len(index')
        BY <3>0
      <4>5. index'[i] \in RequestIds /\ index'[1] \in RequestIds
        BY <3>2, <4>0
      <4>1. index'[i] \in Nat /\ index'[1] \in Nat
        BY <1>0, <4>5
      <4>2. i # 1 => index'[1] > index'[i]
        BY <3>0, <3>1, <3>2, <4>0, <4>1 DEF Descending
      <4>3. QED
        BY <1>0, <2>1, <3>2, <4>1, <4>2
    <3>4. (Descending(index) /\ Retained(index))'
      BY <2>1, <3>0, <3>1 DEF Descending, Retained
    <3>5. Filed'
      BY <2>1, <3>0, <3>1 DEF Filed
    <3>6. Rows'
      BY <2>1, <3>0, <3>2 DEF Rows
    <3>7. QED
      BY <3>3, <3>4, <3>5, <3>6 DEF LogInv
  <2>4. QED
    BY <2>1, <2>2, <2>3
<1>5. CASE Answer(t)
  <2>1. /\ UNCHANGED <<files, index, readable, kills, requests>> /\ pc[t] = "answer"
        /\ \A u \in Threads : pc'[u] = "idle"
        /\ saved' = saved \cup {mem[t].id}
    BY <1>01, <1>5 DEF Answer, TypeOK
  <2>2. readable /\ (\E i \in DOMAIN index : index[i] = mem[t].id) /\ Retained(index)
    BY <2>1 DEF LogInv, Rows
  <2>3. (Descending(index) /\ (readable => Retained(index)))'
    BY <2>1, <2>2 DEF LogInv, Descending, Retained
  <2>4. Filed'
    BY <1>01, <2>1 DEF LogInv, Filed
  <2>5. Rows'
    BY <2>1 DEF Rows
  <2>6. QED
    BY <2>1, <2>3, <2>4, <2>5 DEF LogInv
<1>6. QED
  BY <1>1, <1>2, <1>3, <1>4, <1>5

LEMMA LogStep ==
  ~Overlap /\ TypeOK /\ Alone /\ LogInv /\ [Next]_vars => LogInv'
<1> SUFFICES ASSUME ~Overlap, TypeOK, Alone, LogInv, [Next]_vars PROVE LogInv'
  OBVIOUS
<1> USE DEF Goto, Finish, disk, log, bounds, shown
<1>1. ASSUME NEW t \in Threads, NEW p \in Soils, Dual(t, p) PROVE LogInv'
  <2>1. /\ mem'[t].id = requests' /\ pc'[t] \in {"enter", "upload"}
        /\ \A u \in Threads \ {t} : pc'[u] = pc[u] /\ mem'[u] = mem[u]
    BY <1>1 DEF Dual, Fresh, TypeOK
  <2>2. QED
    BY <1>1, <2>1, ArriveLog DEF Dual, Logging
<1>2. ASSUME NEW t \in Threads, SaveOnly(t) PROVE LogInv'
  <2>1. /\ mem'[t].id = requests' /\ pc'[t] = "row"
        /\ \A u \in Threads \ {t} : pc'[u] = pc[u] /\ mem'[u] = mem[u]
    BY <1>2 DEF SaveOnly, Fresh, TypeOK
  <2>2. QED
    BY <1>2, <2>1, ArriveLog DEF SaveOnly, Logging
<1>3. ASSUME NEW t \in Threads, Step(t) PROVE LogInv'
  <2>0. mem[t] \in Memory
    BY DEF TypeOK
  <2>1. CASE WriteRow(t) \/ ReadIndex(t) \/ Prune(t) \/ WriteIndex(t) \/ Answer(t)
    BY <2>1, SaveLog
  <2>2. CASE ~(WriteRow(t) \/ ReadIndex(t) \/ Prune(t) \/ WriteIndex(t) \/ Answer(t))
    <3>1. UNCHANGED <<files, index, readable, saved, kills, requests>>
      BY <1>3, <2>2 DEF Step, Upload, Load, Enter, SetRoot, Create, Attach, Materialize, Point,
         Bind, Evaluate, Record, Leave, Restore, Publish
    <3>2. pc[t] \notin Logging \cup {"idle"}
      BY <1>3, <2>2 DEF Step, Upload, Load, Enter, SetRoot, Create, Attach, Materialize, Point,
         Bind, Evaluate, Record, Leave, Restore, Publish, Logging
    <3>3. /\ pc'[t] \notin Logging /\ (pc'[t] = "idle" \/ mem'[t].id = mem[t].id)
          /\ \A u \in Threads \ {t} : pc'[u] = pc[u] /\ mem'[u] = mem[u]
      <4>1. CASE Load(t)
        BY <4>1, LoadFrame DEF Logging
      <4>2. CASE Attach(t) \/ Record(t)
        BY <4>2, AttachFrame, RaiseFrame DEF Same, Logging
      <4>3. CASE Bind(t)
        BY <4>3, BindFrame, RaiseFrame DEF Same, Logging, TypeOK
      <4>4. CASE \E ok \in BOOLEAN : Evaluate(t, ok)
        BY <4>4, EvaluateFrame DEF Same, Logging
      <4>5. CASE Upload(t) \/ SetRoot(t) \/ Create(t) \/ Materialize(t) \/ Point(t) \/ Leave(t)
                 \/ Publish(t)
        BY <4>5 DEF Upload, SetRoot, Create, Materialize, Point, Leave, Publish, TypeOK, Logging
      <4>6. CASE Enter(t) \/ Restore(t)
        BY <2>0, <4>6 DEF Enter, Restore, TypeOK, Memory, Logging
      <4>7. QED
        BY <1>3, <2>2, <4>1, <4>2, <4>3, <4>4, <4>5, <4>6 DEF Step
    <3>4. QED
      BY <3>1, <3>2, <3>3, LogFrame
  <2>3. QED
    BY <2>1, <2>2
<1>4. CASE Kill
  <2>1. /\ UNCHANGED <<files, index, readable, saved, requests>> /\ kills' > 0
        /\ \A u \in Threads : pc'[u] = "idle"
    BY <1>4, DeskAssumption DEF Kill, TypeOK
  <2>2. (Descending(index) /\ (readable => Retained(index)))'
    BY <2>1 DEF LogInv, Descending, Retained
  <2>3. Filed' /\ Rows'
    BY <2>1 DEF LogInv, Filed, Rows
  <2>4. QED
    BY <2>1, <2>2, <2>3 DEF LogInv
<1>5. CASE UNCHANGED vars
  BY <1>5 DEF vars, LogInv, Descending, Retained, Filed, Rows
<1>6. QED
  BY <1>1, <1>2, <1>3, <1>4, <1>5, NextCases

LEMMA LogHolds == ASSUME ~Overlap PROVE Spec => []LogInv
<1>1. TypeOK /\ SerialInv /\ LogInv /\ [Next]_vars => LogInv'
  BY LogStep DEF SerialInv
<1>2. QED
  BY <1>1, SerialHolds, LogInit, PTL DEF Spec

\* When requests do not overlap, an acknowledged row stays in the log until
\* Keep newer ones are there, whatever is killed (desk_run_log_v1.py:99).
THEOREM SerialRowKept == ASSUME ~Overlap PROVE Spec => []RowKept
<1>1. LogInv => RowKept
  BY DEF LogInv, RowKept, Retained
<1>2. QED
  BY <1>1, LogHolds, PTL

\* When requests do not overlap, every row of the index has its file, but for
\* the oldest while a save is under way or after one was killed.
THEOREM SerialIndexFiles == ASSUME ~Overlap PROVE Spec => []IndexFiles
<1>1. LogInv => IndexFiles
  BY DEF LogInv, Filed, IndexFiles, Quiet
<1>2. QED
  BY <1>1, LogHolds, PTL
=============================================================================
