-------------------------- MODULE UmdContextProofs --------------------------
(***************************************************************************)
(* Proofs about UmdContext, for any threads, contexts, graphs and setups   *)
(* in which nobody polls beside a thread that unloads: no thread calls     *)
(* through a pointer to what has been deleted, a graph stays loaded until  *)
(* its own thread unloads it, and none is lost when a step fails half way. *)
(*                                                                         *)
(* Nothing in the code keeps a context or a graph alive while a thread     *)
(* holds its pointer; what does is who else may be there.  CtxInv says of  *)
(* every entry of a table that it is a loaded graph or that one thread is  *)
(* at work on it (EntryOK), of every thread what its next step relies on   *)
(* (CallOK, ChangeOK, MineOK), and of every two threads that what they     *)
(* work on is apart (Apart).  HalfOK adds whose the half-unloaded graphs   *)
(* are; with CtxInv, it and NoGraphLost are inductive.                     *)
(***************************************************************************)
EXTENDS UmdContext, TLAPS, FiniteSetTheorems

-----------------------------------------------------------------------------
\* No thread may poll beside one that unloads.
PollApart ==
    \A s \in Setups : \A t, u \in Threads :
        t # u /\ "unload_graph" \in s.may[t] => "poll_jobs_status" \notin s.may[u]

-----------------------------------------------------------------------------
(* The inductive invariant.                                                *)

\* where a thread may be
OwnLookups == {"unload_graph", "create_job", "flush_job", "get_job_status", "clean_job",
               "alloc_tensor_buffers", "free_tensor_buffers", "set_dump_options",
               "get_debug_info"}
OwnMethods == {"destroy_graph_object", "build_new_job", "Graph::flush_job", "Graph::wait",
               "Graph::clean_job", "Graph::buffers", "Graph::job_info"}
PollPcs   == {"poll_jobs_status", "poll_status", "poll_lookup", "update_job_status"}
UnloadPcs == {"unload_graph", "destroy_graph_object"}
EntryPcs  == {"create_graph_object", "publish", "erase"}
Pcs == {"idle", "init", "load_graph"} \cup DeinitPcs \cup OwnLookups \cup OwnMethods
         \cup PollPcs \cup EntryPcs

CtxTypeOK ==
    /\ setup \in Setups
    /\ data \in [Handles -> {NullPtr} \cup Ctxs]
    /\ ctx \in [Ctxs -> {"none", "made", "live", "deleted"}]
    /\ fd \in [Ctxs -> {"none", "open", "garbage", "closed"}]
    /\ graphs \in [Ctxs -> [Gids -> {Absent, NullPtr} \cup Objs]]
    /\ obj \in [Objs -> {"none", "loaded", "unloaded", "deleted"}]
    /\ job \in [Objs -> JobStates]
    /\ pc \in [Threads -> Pcs]
    /\ handle \in [Threads -> Handles]
    /\ cptr \in [Threads -> {NullPtr} \cup Ctxs]
    /\ gid \in [Threads -> {0} \cup Gids]
    /\ gptr \in [Threads -> {NullPtr} \cup Objs]
    /\ mine \in [Threads -> SUBSET (Handles \X Gids)]
    /\ open \subseteq Handles

\* The handles: each has its own context, which lives; what is not in the map has
\* no graphs.
MapOK ==
    /\ \A h \in Handles : data[h] # NullPtr => ctx[data[h]] \in {"made", "live"}
    /\ \A h, k \in Handles : data[h] # NullPtr /\ data[h] = data[k] => h = k
    /\ \A h \in open : data[h] # NullPtr /\ ctx[data[h]] = "live"
    /\ \A c \in Ctxs : ctx[c] # "live" => \A i \in Gids : graphs[c][i] = Absent

\* An object is in one entry of one table, and it has been made.
ObjsOK ==
    /\ \A c, e \in Ctxs, i, k \in Gids :
         graphs[c][i] \in Objs /\ graphs[c][i] = graphs[e][k] => c = e /\ i = k
    /\ \A g \in Objs : obj[g] = "none" => \A c \in Ctxs, i \in Gids : graphs[c][i] # g

\* t is changing the entry i of the context of handle h
Changes(t, h, i) == pc[t] \in EntryPcs /\ handle[t] = h /\ gid[t] = i

\* An entry is a loaded graph, or else a thread is there that puts it right.
EntryOK(h, i) ==
    LET g == graphs[data[h]][i] IN
    \/ g = Absent
    \/ g \in Objs /\ obj[g] = "loaded"
    \/ \E t \in Threads :
         /\ Changes(t, h, i)
         /\ \/ g = NullPtr
            \/ g \in Objs /\ obj[g] = "deleted" /\ pc[t] = "erase" /\ "unload_graph" \in May[t]

\* What a thread knows of the context and the graph it was called for.
CallOK(t) ==
    /\ pc[t] # "idle" => cptr[t] # NullPtr /\ cptr[t] = data[handle[t]]
    /\ pc[t] \notin {"idle", "init"} => handle[t] \in open
    /\ pc[t] = "init" => handle[t] \notin open /\ ctx[cptr[t]] = "made"
    /\ pc[t] \in OwnLookups \cup OwnMethods => <<handle[t], gid[t]>> \in mine[t]
    /\ pc[t] \in OwnMethods \cup {"update_job_status"} =>
         gptr[t] \in Objs /\ gid[t] \in Gids /\ gptr[t] = Table(t)[gid[t]]
    /\ pc[t] \in UnloadPcs => "unload_graph" \in May[t]
    /\ pc[t] \in PollPcs => "poll_jobs_status" \in May[t]
    /\ pc[t] = "poll_lookup" => gid[t] \in Gids
    /\ pc[t] = "force_deinit" => \A i \in Gids : Table(t)[i] # Absent => JobEnded(Table(t)[i])
    /\ pc[t] = "destroy_ctx_ref" => \A i \in Gids : Table(t)[i] = Absent

\* What it knows of the entry it is changing.
ChangeOK(t) ==
    /\ pc[t] \in EntryPcs => gid[t] \in Gids
    /\ pc[t] \in {"create_graph_object", "publish"} =>
         Table(t)[gid[t]] = NullPtr /\ <<handle[t], gid[t]>> \notin mine[t]
    /\ pc[t] = "publish" =>
         /\ gptr[t] \in Objs /\ obj[gptr[t]] = "loaded"
         /\ \A c \in Ctxs, i \in Gids : graphs[c][i] # gptr[t]
    /\ pc[t] = "erase" =>
         \/ Table(t)[gid[t]] = NullPtr /\ <<handle[t], gid[t]>> \notin mine[t]
         \/ /\ Table(t)[gid[t]] \in Objs /\ obj[Table(t)[gid[t]]] = "deleted"
            /\ <<handle[t], gid[t]>> \in mine[t] /\ "unload_graph" \in May[t]

\* A graph it has loaded is there, unless it is being taken away.
MineOK(t) ==
    \A d \in mine[t] :
        /\ d[1] \in open
        /\ \/ Changes(t, d[1], d[2])
           \/ \E u \in Threads : pc[u] = "destroy_ctx_ref" /\ handle[u] = d[1]
           \/ graphs[data[d[1]]][d[2]] \in Objs /\ obj[graphs[data[d[1]]][d[2]]] = "loaded"

\* Two threads: one that makes or gives up a context is alone in it, and no graph
\* belongs to both.
Claims(t) == mine[t] \cup (IF pc[t] \in EntryPcs THEN {<<handle[t], gid[t]>>} ELSE {})
Apart(t, u) ==
    /\ pc[t] \in DeinitPcs \cup {"init"} /\ pc[u] # "idle" => handle[t] # handle[u]
    /\ Claims(t) \cap Claims(u) = {}
    /\ pc[t] = "publish" /\ pc[u] = "publish" => gptr[t] # gptr[u]

CtxInv ==
    /\ CtxTypeOK /\ MapOK /\ ObjsOK
    /\ \A h \in Handles, i \in Gids : data[h] # NullPtr => EntryOK(h, i)
    /\ \A t \in Threads : CallOK(t) /\ ChangeOK(t) /\ MineOK(t)
    /\ \A t, u \in Threads : t # u => Apart(t, u)

\* A graph that an unload has left half way was loaded, is not one that is being
\* published, and its thread may unload.
HalfOK == \A g \in Objs : job[g] = "HALF" =>
    /\ obj[g] # "none"
    /\ \A t \in Threads : pc[t] = "publish" => gptr[t] # g
    /\ \A t \in Threads : \A d \in mine[t] :
         graphs[data[d[1]]][d[2]] = g => "unload_graph" \in May[t]

-----------------------------------------------------------------------------
(* What the invariant says of the pointers.                                *)

\* An own graph is loaded while its thread is in a call about it.
LEMMA OwnEntry ==
  ASSUME CtxInv, NEW t \in Threads, pc[t] \in OwnLookups \cup OwnMethods
  PROVE  /\ gid[t] \in Gids /\ handle[t] \in Handles /\ cptr[t] \in Ctxs
         /\ Table(t)[gid[t]] \in Objs /\ obj[Table(t)[gid[t]]] = "loaded"
<1>1. <<handle[t], gid[t]>> \in mine[t] /\ cptr[t] = data[handle[t]] /\ cptr[t] # NullPtr
  BY DEF CtxInv, CallOK, OwnLookups, OwnMethods
<1>2. gid[t] \in Gids /\ handle[t] \in Handles /\ cptr[t] \in Ctxs
  BY <1>1 DEF CtxInv, CtxTypeOK
<1>3. ~Changes(t, handle[t], gid[t])
  BY DEF Changes, EntryPcs, OwnLookups, OwnMethods
<1>4. ASSUME NEW u \in Threads, pc[u] = "destroy_ctx_ref", handle[u] = handle[t] PROVE FALSE
  <2>1. u # t /\ pc[t] # "idle"
    BY <1>4 DEF OwnLookups, OwnMethods
  <2> QED
    BY <1>4, <2>1 DEF CtxInv, Apart, DeinitPcs
<1>5. MineOK(t)
  BY DEF CtxInv
<1>6. graphs[data[handle[t]]][gid[t]] \in Objs /\ obj[graphs[data[handle[t]]][gid[t]]] = "loaded"
  BY <1>1, <1>3, <1>4, <1>5 DEF MineOK
<1> QED
  BY <1>1, <1>2, <1>6 DEF Table

\* A thread in a call holds a context that lives.
LEMMA CallContext ==
  ASSUME CtxInv, NEW t \in Threads, pc[t] # "idle"
  PROVE  /\ handle[t] \in Handles /\ cptr[t] \in Ctxs /\ cptr[t] = data[handle[t]]
         /\ data[handle[t]] # NullPtr
         /\ ctx[cptr[t]] \in {"made", "live"}
<1>1. cptr[t] # NullPtr /\ cptr[t] = data[handle[t]]
  BY DEF CtxInv, CallOK
<1>2. handle[t] \in Handles /\ cptr[t] \in Ctxs
  BY <1>1 DEF CtxInv, CtxTypeOK
<1> QED
  BY <1>1, <1>2 DEF CtxInv, MapOK

\* While somebody polls, no other thread unloads, so the table is sound.
LEMMA PollEntry ==
  ASSUME PollApart, CtxInv, NEW t \in Threads, pc[t] \in PollPcs,
         NEW i \in Gids, Table(t)[i] \notin {Absent, NullPtr}
  PROVE  Table(t)[i] \in Objs /\ obj[Table(t)[i]] = "loaded"
<1>1. pc[t] # "idle" /\ pc[t] \notin EntryPcs /\ "poll_jobs_status" \in May[t]
  BY DEF PollPcs, EntryPcs, CtxInv, CallOK
<1>2. EntryOK(handle[t], i)
  BY <1>1, CallContext DEF CtxInv
<1>3. ASSUME NEW u \in Threads, Changes(u, handle[t], i), "unload_graph" \in May[u] PROVE FALSE
  <2>1. u # t
    BY <1>1, <1>3 DEF Changes
  <2> QED
    BY <1>1, <1>3, <2>1 DEF PollApart, May, CtxInv, CtxTypeOK
<1> QED
  BY <1>1, <1>2, <1>3, CallContext DEF EntryOK, Table

\* AIPU_deinit_ctx is alone in the context, so nobody is changing the table.
LEMMA DeinitEntry ==
  ASSUME CtxInv, NEW t \in Threads, pc[t] \in {"deinit_ctx", "force_deinit"},
         NEW i \in Gids, Table(t)[i] # Absent
  PROVE  Table(t)[i] \in Objs /\ obj[Table(t)[i]] = "loaded"
<1>1. pc[t] # "idle" /\ pc[t] \notin EntryPcs /\ pc[t] \in DeinitPcs
  BY DEF EntryPcs, DeinitPcs
<1>2. EntryOK(handle[t], i)
  BY <1>1, CallContext DEF CtxInv
<1>3. ASSUME NEW u \in Threads, Changes(u, handle[t], i) PROVE FALSE
  <2>1. u # t /\ pc[u] # "idle" /\ handle[u] = handle[t]
    BY <1>1, <1>3 DEF Changes, EntryPcs
  <2> QED
    BY <1>1, <2>1 DEF CtxInv, Apart
<1> QED
  BY <1>1, <1>2, <1>3, CallContext DEF EntryOK, Table

\* get_ctx_ref and get_graph_object return bare pointers; CtxInv says they are good.
LEMMA PointersFromInv == PollApart /\ CtxInv => PointersLive
<1> SUFFICES ASSUME PollApart, CtxInv, NEW t \in Threads
    PROVE  /\ ~At(t, "idle") => CtxLive(cptr[t])
           /\ pc[t] \in GraphMethods => ObjLive(gptr[t])
           /\ At(t, "poll_jobs_status") => \A i \in Gids :
                Table(t)[i] \notin {Absent, NullPtr} => ObjLive(Table(t)[i])
           /\ pc[t] \in {"deinit_ctx", "force_deinit"} => \A i \in Gids :
                Table(t)[i] # Absent => ObjLive(Table(t)[i])
  BY DEF PointersLive
<1>0. \A g \in Objs : obj[g] = "loaded" => ObjLive(g)
  BY ContextAssumption DEF ObjLive, Objs, NullPtr
<1>1. ~At(t, "idle") => CtxLive(cptr[t])
  BY CallContext, ContextAssumption DEF At, CtxLive, Ctxs, NullPtr
<1>2. ASSUME pc[t] \in GraphMethods PROVE ObjLive(gptr[t])
  <2>1. pc[t] \in OwnMethods \cup {"update_job_status"}
    BY <1>2 DEF GraphMethods, OwnMethods
  <2>2. gptr[t] \in Objs /\ gid[t] \in Gids /\ gptr[t] = Table(t)[gid[t]]
    BY <2>1 DEF CtxInv, CallOK
  <2>3. CASE pc[t] \in OwnMethods
    BY <1>0, <2>2, <2>3, OwnEntry
  <2>4. CASE pc[t] = "update_job_status"
    <3>1. pc[t] \in PollPcs /\ Table(t)[gid[t]] \notin {Absent, NullPtr}
      BY <2>2, <2>4, ContextAssumption DEF PollPcs, Objs, Absent, NullPtr
    <3> QED
      BY <1>0, <2>2, <3>1, PollEntry
  <2> QED
    BY <2>1, <2>3, <2>4
<1>3. ASSUME At(t, "poll_jobs_status"), NEW i \in Gids, Table(t)[i] \notin {Absent, NullPtr}
      PROVE  ObjLive(Table(t)[i])
  BY <1>0, <1>3, PollEntry DEF At, PollPcs
<1>4. ASSUME pc[t] \in {"deinit_ctx", "force_deinit"}, NEW i \in Gids, Table(t)[i] # Absent
      PROVE  ObjLive(Table(t)[i])
  BY <1>0, <1>4, DeinitEntry
<1> QED
  BY <1>1, <1>2, <1>3, <1>4

\* The graphs AIPU_load_graph gave to a thread are loaded and nobody else's.
LEMMA OwnGraphFromInv == CtxInv /\ HalfOK => OwnGraphLoaded
<1> SUFFICES ASSUME CtxInv, HalfOK PROVE OwnGraphLoaded
  OBVIOUS
<1>1. \A t, u \in Threads : t # u => mine[t] \cap mine[u] = {}
  BY DEF CtxInv, Apart, Claims
<1>2. ASSUME NEW t \in Threads, NEW d \in mine[t], d[1] \in open, ~At(t, "erase"),
             \A u \in Threads : At(u, "destroy_ctx_ref") => handle[u] # d[1]
      PROVE  LET g == graphs[data[d[1]]][d[2]] IN
               /\ g \in Objs /\ obj[g] = "loaded"
               /\ job[g] = "HALF" => "unload_graph" \in May[t]
  <2>1. MineOK(t) /\ ChangeOK(t)
    BY DEF CtxInv
  <2>2. d = <<d[1], d[2]>>
    BY DEF CtxInv, CtxTypeOK
  <2>3. ~Changes(t, d[1], d[2])
    BY <1>2, <2>1, <2>2 DEF Changes, ChangeOK, EntryPcs, At
  <2> QED
    BY <1>2, <2>1, <2>3 DEF MineOK, HalfOK, At
<1> QED
  BY <1>1, <1>2 DEF OwnGraphLoaded

-----------------------------------------------------------------------------
(* Steps that leave the tables alone.                                      *)

\* t goes on in its call, begins one or returns; at most its own graph's job moves.
LEMMA QuietStep ==
  ASSUME CtxInv, NEW t \in Threads,
         UNCHANGED <<setup, data, ctx, fd, graphs, obj, mine, open>>,
         job' \in [Objs -> JobStates],
         \A g \in Objs : \/ JobEnded(g) => JobEnded(g)'
                         \/ pc[t] \in OwnMethods /\ g = gptr[t],
         pc' \in [Threads -> Pcs], handle' \in [Threads -> Handles],
         cptr' \in [Threads -> {NullPtr} \cup Ctxs], gid' \in [Threads -> {0} \cup Gids],
         gptr' \in [Threads -> {NullPtr} \cup Objs],
         \A u \in Threads \ {t} :
            pc'[u] = pc[u] /\ handle'[u] = handle[u] /\ cptr'[u] = cptr[u]
              /\ gid'[u] = gid[u] /\ gptr'[u] = gptr[u],
         CallOK(t)', ChangeOK(t)',
         pc[t] \notin {"erase", "destroy_ctx_ref"}, pc'[t] # "publish",
         pc[t] \in EntryPcs => pc'[t] \in EntryPcs,
         pc[t] \in EntryPcs \/ pc'[t] \in EntryPcs =>
           pc[t] \in EntryPcs /\ handle'[t] = handle[t] /\ gid'[t] = gid[t],
         \A u \in Threads \ {t} : pc[u] # "idle" /\ pc'[t] # "idle" /\ handle[u] = handle'[t] =>
            pc'[t] \notin DeinitPcs \cup {"init"} /\ pc[u] \notin DeinitPcs \cup {"init"}
  PROVE  CtxInv'
<1>1. CtxTypeOK'
  BY DEF CtxInv, CtxTypeOK
<1>2. MapOK' /\ ObjsOK'
  BY DEF CtxInv, MapOK, ObjsOK
<1>3. \A u \in Threads : May[u]' = May[u]
  BY DEF May
<1>4. \A u \in Threads : \A h, i : Changes(u, h, i)' <=> Changes(u, h, i)
  BY DEF Changes
<1>5. ASSUME NEW h \in Handles, NEW i \in Gids, data'[h] # NullPtr PROVE EntryOK(h, i)'
  <2>1. EntryOK(h, i) /\ UNCHANGED <<graphs, data, obj>>
    BY <1>5 DEF CtxInv
  <2>2. \A u \in Threads : pc[u] = "erase" => pc'[u] = "erase"
    OBVIOUS
  <2> QED
    BY <1>3, <1>4, <2>1, <2>2 DEF EntryOK
<1>6. ASSUME NEW u \in Threads \ {t} PROVE CallOK(u)'
  <2>1. CallOK(u)
    BY DEF CtxInv
  <2>2. /\ pc'[u] = pc[u] /\ handle'[u] = handle[u] /\ cptr'[u] = cptr[u]
        /\ gid'[u] = gid[u] /\ gptr'[u] = gptr[u] /\ Table(u)' = Table(u)
    BY DEF Table
  <2>3. ASSUME pc[u] = "force_deinit", NEW i \in Gids, Table(u)[i] # Absent
        PROVE  JobEnded(Table(u)[i])'
    <3>1. Table(u)[i] \in Objs /\ JobEnded(Table(u)[i])
      BY <2>1, <2>3, DeinitEntry DEF CallOK
    <3>2. ASSUME pc[t] \in OwnMethods, Table(u)[i] = gptr[t] PROVE FALSE
      <4>1. gptr[t] = Table(t)[gid[t]] /\ gid[t] \in Gids /\ gptr[t] \in Objs
        BY <3>2 DEF CtxInv, CallOK
      <4>2. cptr[t] \in Ctxs /\ cptr[t] = data[handle[t]] /\ handle[t] \in Handles
        BY <3>2, CallContext DEF OwnMethods
      <4>3. cptr[u] \in Ctxs /\ cptr[u] = data[handle[u]] /\ handle[u] \in Handles
            /\ data[handle[u]] # NullPtr
        BY <2>3, CallContext
      <4>4. cptr[u] = cptr[t]
        <5>1. \A c, e \in Ctxs, k, m \in Gids :
                graphs[c][k] \in Objs /\ graphs[c][k] = graphs[e][m] => c = e
          BY DEF CtxInv, ObjsOK
        <5>2. /\ graphs[cptr[u]][i] = gptr[t] /\ graphs[cptr[t]][gid[t]] = gptr[t]
              /\ gptr[t] \in Objs /\ i \in Gids /\ gid[t] \in Gids
          BY <3>2, <4>1 DEF Table
        <5> QED
          BY <4>1, <4>2, <4>3, <5>1, <5>2
      <4>5. handle[u] = handle[t]
        <5>1. PICK h \in Handles, k \in Handles : h = handle[u] /\ k = handle[t]
          BY <4>2, <4>3
        <5>2. data[h] # NullPtr /\ data[h] = data[k]
          BY <4>2, <4>3, <4>4, <5>1
        <5>3. h = k
          BY <5>2 DEF CtxInv, MapOK
        <5> QED
          BY <5>1, <5>3
      <4> QED
        BY <2>3, <3>2, <4>5 DEF CtxInv, Apart, DeinitPcs, OwnMethods
    <3>3. PICK g \in Objs : g = Table(u)[i]
      BY <3>1
    <3>4. JobEnded(g)'
      BY <3>1, <3>2, <3>3
    <3> QED
      BY <2>2, <3>3, <3>4 DEF JobEnded
  <2> QED
    BY <1>3, <2>1, <2>2, <2>3 DEF CallOK, JobEnded
<1>7. ASSUME NEW u \in Threads \ {t} PROVE ChangeOK(u)'
  <2>1. ChangeOK(u)
    BY DEF CtxInv
  <2>2. /\ pc'[u] = pc[u] /\ handle'[u] = handle[u] /\ cptr'[u] = cptr[u]
        /\ gid'[u] = gid[u] /\ gptr'[u] = gptr[u] /\ Table(u)' = Table(u)
    BY DEF Table
  <2> QED
    BY <1>3, <2>1, <2>2 DEF ChangeOK
<1>8. ASSUME NEW u \in Threads PROVE MineOK(u)'
  <2>1. MineOK(u) /\ UNCHANGED <<mine, open, graphs, data, obj>>
    BY DEF CtxInv
  <2>2. \A w \in Threads : pc[w] = "destroy_ctx_ref" =>
          pc'[w] = "destroy_ctx_ref" /\ handle'[w] = handle[w]
    OBVIOUS
  <2> QED
    BY <1>4, <2>1, <2>2 DEF MineOK
<1>9. \A u \in Threads : Claims(u)' = Claims(u)
  BY DEF Claims
<1>10. ASSUME NEW u \in Threads, NEW w \in Threads, u # w PROVE Apart(u, w)'
  <2>1. Apart(u, w)
    BY <1>10 DEF CtxInv
  <2>2. pc'[u] \in DeinitPcs \cup {"init"} /\ pc'[w] # "idle" => handle'[u] # handle'[w]
    <3>1. CASE u # t /\ w # t
      BY <2>1, <3>1 DEF Apart
    <3>2. CASE u = t
      BY <1>10, <3>2 DEF DeinitPcs
    <3>3. CASE w = t
      BY <1>10, <3>3 DEF DeinitPcs
    <3> QED
      BY <3>1, <3>2, <3>3
  <2>3. Claims(u)' \cap Claims(w)' = {}
    BY <1>9, <2>1 DEF Apart
  <2>4. pc'[u] = "publish" /\ pc'[w] = "publish" => gptr'[u] # gptr'[w]
    BY <2>1 DEF Apart
  <2> QED
    BY <2>2, <2>3, <2>4 DEF Apart
<1> QED
  BY <1>1, <1>2, <1>5, <1>6, <1>7, <1>8, <1>10 DEF CtxInv

\* The call of t returns.
LEMMA ReturnStep ==
  ASSUME CtxInv, NEW t \in Threads, Return(t),
         UNCHANGED <<setup, data, ctx, fd, graphs, obj, mine, open, handle, gid>>,
         job' \in [Objs -> JobStates],
         \A g \in Objs : \/ JobEnded(g) => JobEnded(g)'
                         \/ pc[t] \in OwnMethods /\ g = gptr[t],
         pc[t] \notin EntryPcs, pc[t] # "destroy_ctx_ref"
  PROVE  CtxInv'
<1>1. /\ pc' \in [Threads -> Pcs] /\ cptr' \in [Threads -> {NullPtr} \cup Ctxs]
      /\ gptr' \in [Threads -> {NullPtr} \cup Objs] /\ pc'[t] = "idle"
  BY DEF Return, Goto, CtxInv, CtxTypeOK, Pcs
<1>2. \A u \in Threads \ {t} : pc'[u] = pc[u] /\ cptr'[u] = cptr[u] /\ gptr'[u] = gptr[u]
  BY DEF Return, Goto, CtxInv, CtxTypeOK
<1>3. handle' \in [Threads -> Handles] /\ gid' \in [Threads -> {0} \cup Gids]
  BY DEF CtxInv, CtxTypeOK
<1>4. CallOK(t)'
  BY <1>1 DEF CallOK, OwnLookups, OwnMethods, UnloadPcs, PollPcs
<1>5. ChangeOK(t)'
  BY <1>1 DEF ChangeOK, EntryPcs
<1>6. pc'[t] \notin EntryPcs /\ pc[t] # "erase" /\ pc'[t] # "publish"
  BY <1>1 DEF EntryPcs
<1> QED
  BY <1>1, <1>2, <1>3, <1>4, <1>5, <1>6, QuietStep

\* The call of t goes on at where, with a graph id and a graph it has found.
LEMMA GotoStep ==
  ASSUME CtxInv, NEW t \in Threads, NEW where \in Pcs, Goto(t, where),
         UNCHANGED <<setup, data, ctx, fd, graphs, obj, job, mine, open, handle, cptr>>,
         gid' \in [Threads -> {0} \cup Gids], gptr' \in [Threads -> {NullPtr} \cup Objs],
         \A u \in Threads \ {t} : gid'[u] = gid[u] /\ gptr'[u] = gptr[u],
         pc[t] \notin {"idle", "init", "erase", "destroy_ctx_ref"},
         where \notin {"idle", "init", "publish"},
         where \in DeinitPcs => pc[t] \in DeinitPcs,
         pc[t] \in EntryPcs <=> where \in EntryPcs,
         where \in EntryPcs => gid'[t] = gid[t],
         CallOK(t)', ChangeOK(t)'
  PROVE  CtxInv'
<1>1. /\ pc' \in [Threads -> Pcs] /\ pc'[t] = where
      /\ \A u \in Threads \ {t} : pc'[u] = pc[u]
  BY DEF Goto, CtxInv, CtxTypeOK
<1>2. \A g \in Objs : JobEnded(g) => JobEnded(g)'
  BY DEF JobEnded
<1>3. /\ handle' \in [Threads -> Handles] /\ cptr' \in [Threads -> {NullPtr} \cup Ctxs]
      /\ job' \in [Objs -> JobStates]
  BY DEF CtxInv, CtxTypeOK
<1>4. ASSUME NEW u \in Threads \ {t}, pc[u] # "idle", handle[u] = handle'[t]
      PROVE  pc'[t] \notin DeinitPcs \cup {"init"} /\ pc[u] \notin DeinitPcs \cup {"init"}
  <2>1. Apart(t, u) /\ Apart(u, t)
    BY DEF CtxInv
  <2> QED
    BY <1>1, <1>4, <2>1 DEF Apart
<1> QED
  BY <1>1, <1>2, <1>3, <1>4, QuietStep

\* A handle that the application has is in the map.
LEMMA OpenHandle ==
  ASSUME CtxInv, NEW h \in open
  PROVE  h \in Handles /\ data[h] \in Ctxs /\ data[h] # NullPtr
BY DEF CtxInv, CtxTypeOK, MapOK

\* An API function takes the context from the map, and is allowed to.
LEMMA EnterStep ==
  ASSUME CtxInv, NEW t \in Threads, NEW op \in Pcs, NEW h \in open, At(t, "idle"),
         Allowed(t, op, h), Goto(t, op),
         handle' = [handle EXCEPT ![t] = h], cptr' = [cptr EXCEPT ![t] = data[h]],
         UNCHANGED <<tables, gptr, mine, open>>,
         gid' \in [Threads -> {0} \cup Gids],
         \A u \in Threads \ {t} : gid'[u] = gid[u],
         op \notin EntryPcs, op # "init",
         CallOK(t)'
  PROVE  CtxInv'
<1>1. h \in Handles /\ data[h] \in Ctxs /\ data[h] # NullPtr
  BY OpenHandle
<1>2. /\ pc' \in [Threads -> Pcs] /\ handle' \in [Threads -> Handles]
      /\ cptr' \in [Threads -> {NullPtr} \cup Ctxs]
      /\ gptr' \in [Threads -> {NullPtr} \cup Objs]
      /\ job' \in [Objs -> JobStates]
  BY <1>1 DEF Goto, CtxInv, CtxTypeOK, tables
<1>3. pc'[t] = op /\ handle'[t] = h /\ pc[t] = "idle"
  BY DEF Goto, At, CtxInv, CtxTypeOK
<1>4. \A u \in Threads \ {t} :
        pc'[u] = pc[u] /\ handle'[u] = handle[u] /\ cptr'[u] = cptr[u] /\ gptr'[u] = gptr[u]
  BY DEF Goto, CtxInv, CtxTypeOK
<1>5. ChangeOK(t)'
  BY <1>3 DEF ChangeOK, EntryPcs
<1>6. ASSUME NEW u \in Threads \ {t}, pc[u] # "idle", handle[u] = h
      PROVE  op \notin DeinitPcs \cup {"init"} /\ pc[u] \notin DeinitPcs \cup {"init"}
  <2>1. {op, pc[u]} \cap DeinitPcs = {}
    BY <1>6 DEF Allowed, At
  <2>2. pc[u] # "init"
    BY <1>6 DEF CtxInv, CallOK
  <2> QED
    BY <2>1, <2>2
<1>7. \A g \in Objs : JobEnded(g) => JobEnded(g)'
  BY DEF JobEnded, tables
<1>8. UNCHANGED <<setup, data, ctx, fd, graphs, obj, mine, open>>
  BY DEF tables
<1>9. pc[t] \notin EntryPcs /\ pc[t] \notin {"erase", "destroy_ctx_ref"} /\ pc'[t] # "publish"
      /\ pc'[t] \notin EntryPcs
  BY <1>3 DEF EntryPcs
<1> QED
  BY <1>2, <1>3, <1>4, <1>5, <1>6, <1>7, <1>8, <1>9, QuietStep

\* AIPU_deinit_ctx, AIPU_load_graph and AIPU_poll_jobs_status begin.
LEMMA CallStep ==
  ASSUME CtxInv, NEW t \in Threads, NEW op \in {"deinit_ctx", "load_graph", "poll_jobs_status"},
         Call(t, op)
  PROVE  CtxInv'
<1>1. PICK h \in open :
        /\ Allowed(t, op, h) /\ handle' = [handle EXCEPT ![t] = h]
        /\ data[h] # NullPtr => Goto(t, op) /\ cptr' = [cptr EXCEPT ![t] = data[h]]
  BY DEF Call
<1>2. h \in Handles /\ data[h] \in Ctxs /\ data[h] # NullPtr
  BY OpenHandle
<1>3. /\ pc'[t] = op /\ handle'[t] = h /\ cptr'[t] = data[h]
      /\ data' = data /\ open' = open /\ setup' = setup
  BY <1>1, <1>2 DEF Goto, Call, tables, CtxInv, CtxTypeOK
<1>4. gid' \in [Threads -> {0} \cup Gids] /\ gid' = gid
  BY DEF Call, CtxInv, CtxTypeOK
<1>5. op \in PollPcs => "poll_jobs_status" \in May[t]
  BY DEF Call, PollPcs
<1>6. op \in Pcs /\ op \notin EntryPcs /\ op # "init"
  BY DEF Pcs, DeinitPcs, PollPcs, EntryPcs
<1>7. CallOK(t)'
  BY <1>2, <1>3, <1>5 DEF CallOK, OwnLookups, OwnMethods, UnloadPcs, PollPcs, May
<1> QED
  BY <1>1, <1>2, <1>4, <1>6, <1>7, EnterStep DEF Call

\* A function about one of the thread's own graphs begins.
LEMMA CallGraphStep ==
  ASSUME CtxInv, NEW t \in Threads, NEW op \in OwnLookups, CallGraph(t, op)
  PROVE  CtxInv'
<1>1. PICK d \in mine[t] :
        /\ d[1] \in open /\ Allowed(t, op, d[1]) /\ handle' = [handle EXCEPT ![t] = d[1]]
        /\ gid' = [gid EXCEPT ![t] = d[2]]
        /\ data[d[1]] # NullPtr => Goto(t, op) /\ cptr' = [cptr EXCEPT ![t] = data[d[1]]]
  BY DEF CallGraph
<1>2. d[1] \in Handles /\ data[d[1]] \in Ctxs /\ data[d[1]] # NullPtr
  BY <1>1, OpenHandle
<1>3. d = <<d[1], d[2]>> /\ d[2] \in Gids
  BY DEF CtxInv, CtxTypeOK
<1>4. /\ pc'[t] = op /\ handle'[t] = d[1] /\ cptr'[t] = data[d[1]] /\ gid'[t] = d[2]
      /\ data' = data /\ open' = open /\ setup' = setup /\ mine' = mine
  BY <1>1, <1>2 DEF Goto, CallGraph, tables, CtxInv, CtxTypeOK
<1>5. gid' \in [Threads -> {0} \cup Gids] /\ \A u \in Threads \ {t} : gid'[u] = gid[u]
  BY <1>1, <1>3 DEF CtxInv, CtxTypeOK
<1>6. op \in UnloadPcs => "unload_graph" \in May[t]
  BY DEF CallGraph, UnloadPcs, OwnLookups
<1>7. op \in Pcs /\ op \notin EntryPcs /\ op # "init"
  BY DEF Pcs, OwnLookups, EntryPcs
<1>8. CallOK(t)'
  BY <1>1, <1>2, <1>3, <1>4, <1>6 DEF CallOK, OwnLookups, OwnMethods, UnloadPcs, PollPcs, May
<1> QED
  BY <1>1, <1>2, <1>5, <1>7, <1>8, EnterStep DEF CallGraph

\* get_graph_object finds the graph of the entry, or the call returns.
LEMMA LookupStep ==
  ASSUME CtxInv, NEW t \in Threads, NEW op, NEW next, GetGraphObject(t, op, next),
         \/ op \in OwnLookups /\ next \in OwnMethods
              /\ (next = "destroy_graph_object" => op = "unload_graph")
         \/ op = "poll_lookup" /\ next = "update_job_status"
  PROVE  CtxInv'
<1>1. pc[t] = op /\ UNCHANGED <<tables, handle, gid, mine, open>>
  BY DEF GetGraphObject, At
<1>2. op \notin EntryPcs /\ op \notin {"idle", "init", "erase", "destroy_ctx_ref"}
  BY DEF EntryPcs, OwnLookups
<1>3. CASE Return(t)
  <2>1. \A g \in Objs : JobEnded(g) => JobEnded(g)'
    BY <1>1 DEF JobEnded, tables
  <2>2. job' \in [Objs -> JobStates]
    BY <1>1 DEF tables, CtxInv, CtxTypeOK
  <2> QED
    BY <1>1, <1>2, <1>3, <2>1, <2>2, ReturnStep DEF tables
<1>4. CASE /\ Table(t)[gid[t]] \notin {Absent, NullPtr}
           /\ gptr' = [gptr EXCEPT ![t] = Table(t)[gid[t]]]
           /\ Goto(t, next) /\ UNCHANGED cptr
  <2>1. /\ cptr[t] \in Ctxs /\ cptr[t] # NullPtr /\ cptr[t] = data[handle[t]]
        /\ handle[t] \in open
    BY <1>1, <1>2, CallContext, ContextAssumption DEF CtxInv, CallOK
  <2>2. gid[t] \in Gids
    BY <1>1, OwnEntry DEF CtxInv, CallOK
  <2>3. Table(t)[gid[t]] \in Objs
    BY <1>4, <2>1, <2>2 DEF Table, CtxInv, CtxTypeOK
  <2>4. pc'[t] = next /\ gptr'[t] = Table(t)[gid[t]] /\ Table(t)' = Table(t)
    BY <1>1, <1>4 DEF Goto, CtxInv, CtxTypeOK, Table, tables
  <2>5. gptr' \in [Threads -> {NullPtr} \cup Objs] /\ \A u \in Threads \ {t} : gptr'[u] = gptr[u]
    BY <1>4, <2>3 DEF CtxInv, CtxTypeOK
  <2>6. /\ next \in Pcs /\ next \notin EntryPcs
        /\ next \notin {"idle", "init", "publish", "force_deinit", "destroy_ctx_ref"}
        /\ next \notin DeinitPcs
        /\ next # "poll_lookup" /\ next \notin OwnLookups
        /\ next \in OwnMethods \cup {"update_job_status"}
    BY DEF Pcs, OwnMethods, PollPcs, EntryPcs, DeinitPcs, OwnLookups
  <2>7. /\ next \in OwnMethods => <<handle[t], gid[t]>> \in mine[t]
        /\ next \in UnloadPcs => "unload_graph" \in May[t]
        /\ next \in PollPcs => "poll_jobs_status" \in May[t]
    BY <1>1 DEF CtxInv, CallOK, OwnLookups, OwnMethods, UnloadPcs, PollPcs
  <2>8. /\ data' = data /\ open' = open /\ setup' = setup /\ mine' = mine /\ gid' = gid
        /\ handle' = handle /\ cptr' = cptr
    BY <1>1, <1>4 DEF tables
  <2>9. CallOK(t)'
    BY <2>1, <2>2, <2>3, <2>4, <2>6, <2>7, <2>8 DEF CallOK, May
  <2>10. ChangeOK(t)'
    BY <2>4, <2>6 DEF ChangeOK, EntryPcs
  <2>11. gid' \in [Threads -> {0} \cup Gids] /\ \A u \in Threads \ {t} : gid'[u] = gid[u]
    BY <2>8 DEF CtxInv, CtxTypeOK
  <2>12. UNCHANGED <<setup, data, ctx, fd, graphs, obj, job, mine, open, handle, cptr>>
    BY <1>1, <2>8 DEF tables
  <2> QED
    BY <1>1, <1>2, <1>4, <2>5, <2>6, <2>9, <2>10, <2>11, <2>12, GotoStep
<1> QED
  BY <1>3, <1>4 DEF GetGraphObject

\* A method of a graph moves at most the job of that graph.
LEMMA MethodStep ==
  ASSUME CtxInv, NEW t \in Threads, NEW where, NEW from,
         NEW to \in JobStates,
         GraphMethod(t, where, from, to),
         where \in OwnMethods \/ (where = "update_job_status" /\ to = "DONE")
  PROVE  CtxInv'
<1>1. /\ pc[t] = where /\ Return(t)
      /\ UNCHANGED <<setup, data, ctx, fd, graphs, obj, handle, gid, mine, open>>
  BY DEF GraphMethod, At
<1>2. job' = [job EXCEPT ![gptr[t]] = IF @ = from THEN to ELSE @]
  BY DEF GraphMethod
<1>3. gptr[t] \in Objs
  BY <1>1 DEF CtxInv, CallOK
<1>4. job' \in [Objs -> JobStates]
  BY <1>2 DEF CtxInv, CtxTypeOK
<1>5. \A g \in Objs : \/ JobEnded(g) => JobEnded(g)'
                      \/ pc[t] \in OwnMethods /\ g = gptr[t]
  BY <1>1, <1>2 DEF JobEnded, CtxInv, CtxTypeOK
<1>6. pc[t] \notin EntryPcs /\ pc[t] # "destroy_ctx_ref"
  BY <1>1 DEF EntryPcs, OwnMethods
<1> QED
  BY <1>1, <1>4, <1>5, <1>6, ReturnStep

\* is_deinit_ok says yes when every job has ended.
LEMMA IsDeinitOkStep ==
  ASSUME CtxInv, NEW t \in Threads, IsDeinitOk(t)
  PROVE  CtxInv'
<1>1. pc[t] = "deinit_ctx" /\ UNCHANGED <<tables, handle, gid, mine, open>>
  BY DEF IsDeinitOk, At
<1>2. /\ UNCHANGED <<setup, data, ctx, fd, graphs, obj, job, mine, open, handle>>
      /\ \A g \in Objs : JobEnded(g) => JobEnded(g)'
      /\ job' \in [Objs -> JobStates]
      /\ gid' = gid /\ gid' \in [Threads -> {0} \cup Gids]
  BY <1>1 DEF tables, JobEnded, CtxInv, CtxTypeOK
<1>3. CASE Return(t)
  BY <1>1, <1>2, <1>3, ReturnStep DEF EntryPcs
<1>4. CASE /\ \A i \in Gids : Table(t)[i] # Absent => JobEnded(Table(t)[i])
           /\ Goto(t, "force_deinit") /\ UNCHANGED <<cptr, gptr>>
  <2>1. /\ cptr[t] \in Ctxs /\ cptr[t] # NullPtr /\ cptr[t] = data[handle[t]]
        /\ handle[t] \in open
    BY <1>1, CallContext DEF CtxInv, CallOK
  <2>2. pc'[t] = "force_deinit" /\ Table(t)' = Table(t)
    BY <1>2, <1>4 DEF Goto, CtxInv, CtxTypeOK, Table
  <2>3. \A i \in Gids : Table(t)'[i] # Absent => JobEnded(Table(t)[i])'
    BY <1>2, <1>4, <2>2 DEF JobEnded
  <2>4. CallOK(t)'
    BY <1>2, <1>4, <2>1, <2>2, <2>3 DEF CallOK, OwnLookups, OwnMethods, UnloadPcs, PollPcs
  <2>5. ChangeOK(t)'
    BY <2>2 DEF ChangeOK, EntryPcs
  <2>6. gptr' = gptr /\ gptr' \in [Threads -> {NullPtr} \cup Objs]
    BY <1>4 DEF CtxInv, CtxTypeOK
  <2>7. "force_deinit" \in Pcs /\ "force_deinit" \notin EntryPcs /\ pc[t] \in DeinitPcs
        /\ pc[t] \notin EntryPcs
    BY <1>1 DEF Pcs, DeinitPcs, EntryPcs
  <2> QED
    BY <1>1, <1>2, <1>4, <2>4, <2>5, <2>6, <2>7, GotoStep
<1> QED
  BY <1>3, <1>4 DEF IsDeinitOk

\* parse_graph refuses the binary.
LEMMA LoadInvalidStep ==
  ASSUME CtxInv, NEW t \in Threads, LoadInvalid(t)
  PROVE  CtxInv'
<1>1. pc[t] = "load_graph" /\ Return(t) /\ UNCHANGED <<tables, handle, gid, mine, open>>
  BY DEF LoadInvalid, At
<1>2. /\ UNCHANGED <<setup, data, ctx, fd, graphs, obj, job, mine, open, handle, gid>>
      /\ \A g \in Objs : JobEnded(g) => JobEnded(g)'
      /\ job' \in [Objs -> JobStates]
  BY <1>1 DEF tables, JobEnded, CtxInv, CtxTypeOK
<1> QED
  BY <1>1, <1>2, ReturnStep DEF EntryPcs

\* create_graph_object failed: the reserved entry is erased next.
LEMMA CreateFailsStep ==
  ASSUME CtxInv, NEW t \in Threads, CreateGraphObjectFails(t)
  PROVE  CtxInv'
<1>1. /\ pc[t] = "create_graph_object" /\ Goto(t, "erase")
      /\ UNCHANGED <<tables, handle, cptr, gid, gptr, mine, open>>
  BY DEF CreateGraphObjectFails, At
<1>2. /\ UNCHANGED <<setup, data, ctx, fd, graphs, obj, job, mine, open, handle, cptr>>
      /\ gid' = gid /\ gptr' = gptr
      /\ gid' \in [Threads -> {0} \cup Gids] /\ gptr' \in [Threads -> {NullPtr} \cup Objs]
  BY <1>1 DEF tables, CtxInv, CtxTypeOK
<1>3. pc'[t] = "erase" /\ Table(t)' = Table(t)
  BY <1>1, <1>2 DEF Goto, CtxInv, CtxTypeOK, Table
<1>4. CallOK(t)'
  BY <1>1, <1>2, <1>3 DEF CtxInv, CallOK, OwnLookups, OwnMethods, UnloadPcs, PollPcs
<1>5. ChangeOK(t)'
  BY <1>1, <1>2, <1>3 DEF CtxInv, ChangeOK, EntryPcs
<1>6. "erase" \in Pcs /\ "erase" \in EntryPcs /\ pc[t] \in EntryPcs /\ "erase" \notin DeinitPcs
  BY <1>1 DEF Pcs, EntryPcs, DeinitPcs
<1> QED
  BY <1>1, <1>2, <1>4, <1>5, <1>6, GotoStep

\* get_max_poll_job_cnt only reads the table.
LEMMA GetMaxPollJobCntStep ==
  ASSUME CtxInv, NEW t \in Threads, GetMaxPollJobCnt(t)
  PROVE  CtxInv'
<1>1. /\ pc[t] = "poll_jobs_status" /\ Goto(t, "poll_status")
      /\ UNCHANGED <<tables, handle, cptr, gid, gptr, mine, open>>
  BY DEF GetMaxPollJobCnt, At
<1>2. /\ UNCHANGED <<setup, data, ctx, fd, graphs, obj, job, mine, open, handle, cptr>>
      /\ gid' = gid /\ gptr' = gptr
      /\ gid' \in [Threads -> {0} \cup Gids] /\ gptr' \in [Threads -> {NullPtr} \cup Objs]
  BY <1>1 DEF tables, CtxInv, CtxTypeOK
<1>3. pc'[t] = "poll_status"
  BY <1>1 DEF Goto, CtxInv, CtxTypeOK
<1>4. "poll_jobs_status" \in May[t] /\ cptr[t] # NullPtr /\ cptr[t] = data[handle[t]]
      /\ handle[t] \in open
  BY <1>1 DEF CtxInv, CallOK, PollPcs
<1>5. CallOK(t)'
  BY <1>2, <1>3, <1>4 DEF CallOK, OwnLookups, OwnMethods, UnloadPcs, PollPcs, May
<1>6. ChangeOK(t)'
  BY <1>3 DEF ChangeOK, EntryPcs
<1>7. "poll_status" \in Pcs /\ "poll_status" \notin EntryPcs /\ pc[t] \notin EntryPcs
      /\ "poll_status" \notin DeinitPcs
  BY <1>1 DEF Pcs, EntryPcs, DeinitPcs, PollPcs
<1> QED
  BY <1>1, <1>2, <1>5, <1>6, <1>7, GotoStep

\* The kernel names a job, and the poll looks for its graph.
LEMMA PollStatusStep ==
  ASSUME CtxInv, NEW t \in Threads, PollStatus(t)
  PROVE  CtxInv'
<1>1. pc[t] = "poll_status" /\ UNCHANGED <<tables, handle, mine, open>>
  BY DEF PollStatus, At
<1>2. /\ UNCHANGED <<setup, data, ctx, fd, graphs, obj, job, mine, open, handle>>
      /\ \A g \in Objs : JobEnded(g) => JobEnded(g)'
      /\ job' \in [Objs -> JobStates]
  BY <1>1 DEF tables, JobEnded, CtxInv, CtxTypeOK
<1>3. CASE Return(t) /\ UNCHANGED gid
  BY <1>1, <1>2, <1>3, ReturnStep DEF EntryPcs
<1>4. ASSUME NEW i \in Gids, gid' = [gid EXCEPT ![t] = i], Goto(t, "poll_lookup"),
             UNCHANGED <<cptr, gptr>>
      PROVE  CtxInv'
  <2>1. /\ pc'[t] = "poll_lookup" /\ gid'[t] = i
        /\ gid' \in [Threads -> {0} \cup Gids] /\ gptr' \in [Threads -> {NullPtr} \cup Objs]
        /\ \A u \in Threads \ {t} : gid'[u] = gid[u] /\ gptr'[u] = gptr[u]
    BY <1>4 DEF Goto, CtxInv, CtxTypeOK
  <2>2. "poll_jobs_status" \in May[t] /\ cptr[t] # NullPtr /\ cptr[t] = data[handle[t]]
        /\ handle[t] \in open
    BY <1>1 DEF CtxInv, CallOK, PollPcs
  <2>3. CallOK(t)'
    BY <1>2, <1>4, <2>1, <2>2 DEF CallOK, OwnLookups, OwnMethods, UnloadPcs, PollPcs, May
  <2>4. ChangeOK(t)'
    BY <2>1 DEF ChangeOK, EntryPcs
  <2>5. "poll_lookup" \in Pcs /\ "poll_lookup" \notin EntryPcs /\ pc[t] \notin EntryPcs
        /\ "poll_lookup" \notin DeinitPcs
    BY <1>1 DEF Pcs, EntryPcs, DeinitPcs, PollPcs
  <2> QED
    BY <1>1, <1>2, <1>4, <2>1, <2>3, <2>4, <2>5, GotoStep
<1> QED
  BY <1>3, <1>4 DEF PollStatus

-----------------------------------------------------------------------------
(* Steps that change an entry of a table.                                  *)

\* A set of naturals that is not empty has a least element.
LEMMA LeastNat ==
  ASSUME NEW T, T \subseteq Nat, T # {}
  PROVE  \E x \in T : \A y \in T : x <= y
<1> DEFINE R == StrictSubsetOrdering(Nat)
           F == FiniteSubsetsOf(Nat)
           I == {1 .. n : n \in T}
<1>1. IsWellFoundedOn(R, F)
  BY FS_StrictSubsetOrderingWellFounded
<1>2. I # {}
  OBVIOUS
<1>3. \A n \in Nat : IsFiniteSet(1 .. n)
  BY FS_Interval
<1>4. I \subseteq F
  BY <1>3 DEF FiniteSubsetsOf
<1>5. PICK X \in I : \A Y \in I : <<Y, X>> \notin R
  <2> HIDE DEF I, F, R
  <2> QED BY <1>1, <1>2, <1>4, WFMin
<1>6. PICK x \in T : X = 1 .. x
  OBVIOUS
<1>7. ASSUME NEW y \in T, y < x PROVE FALSE
  <2>1. 1 .. y \subseteq 1 .. x /\ x \in 1 .. x /\ x \notin 1 .. y
    BY <1>7
  <2>2. <<1 .. y, 1 .. x>> \in R
    BY <2>1, <1>6 DEF StrictSubsetOrdering
  <2> QED
    BY <1>5, <1>6, <1>7, <2>2
<1> QED
  BY <1>7

\* Min chooses it.
LEMMA MinIn ==
  ASSUME NEW T, T \subseteq Nat, T # {}
  PROVE  Min(T) \in T
BY LeastNat DEF Min

\* t changes the entry i of its context, which nobody else has a claim to: the
\* others see nothing of it, and every other entry is as it was.
LEMMA OtherEntries ==
  ASSUME CtxInv, NEW t \in Threads, pc[t] # "idle", pc[t] \notin DeinitPcs \cup {"init"},
         NEW i \in Gids, NEW g \in {Absent, NullPtr} \cup Objs, SetEntry(t, i, g),
         UNCHANGED <<setup, data, ctx, obj, job, handle, open>>,
         \A u \in Threads \ {t} :
            pc'[u] = pc[u] /\ cptr'[u] = cptr[u] /\ gid'[u] = gid[u] /\ gptr'[u] = gptr[u]
              /\ mine'[u] = mine[u],
         pc[t] \in EntryPcs => gid[t] = i,
         \A u \in Threads \ {t} : <<handle[t], i>> \notin Claims(u),
         \A u \in Threads \ {t} : pc[u] = "update_job_status" /\ handle[u] = handle[t] => gid[u] # i,
         \A u \in Threads \ {t} : pc[u] = "publish" => gptr[u] # g
  PROVE  /\ \A u \in Threads \ {t} : CallOK(u)' /\ ChangeOK(u)' /\ MineOK(u)'
         /\ \A h \in Handles, k \in Gids :
              data'[h] # NullPtr /\ ~(h = handle[t] /\ k = i) => EntryOK(h, k)'
         /\ graphs' \in [Ctxs -> [Gids -> {Absent, NullPtr} \cup Objs]]
         /\ graphs'[cptr[t]][i] = g
         /\ \A c \in Ctxs, k \in Gids : ~(c = cptr[t] /\ k = i) => graphs'[c][k] = graphs[c][k]
<1>1. /\ cptr[t] \in Ctxs /\ cptr[t] = data[handle[t]] /\ handle[t] \in Handles
      /\ data[handle[t]] # NullPtr
  BY CallContext
<1>2. /\ graphs' \in [Ctxs -> [Gids -> {Absent, NullPtr} \cup Objs]]
      /\ graphs'[cptr[t]][i] = g
      /\ \A c \in Ctxs, k \in Gids : ~(c = cptr[t] /\ k = i) => graphs'[c][k] = graphs[c][k]
  BY <1>1 DEF SetEntry, CtxInv, CtxTypeOK
<1>3. \A h \in Handles : data[h] = cptr[t] => h = handle[t]
  BY <1>1 DEF CtxInv, MapOK
<1>4. ASSUME NEW h \in Handles, NEW k \in Gids, data[h] # NullPtr, ~(h = handle[t] /\ k = i)
      PROVE  graphs'[data[h]][k] = graphs[data[h]][k] /\ data[h] \in Ctxs
  <2>1. data[h] \in Ctxs
    BY <1>4 DEF CtxInv, CtxTypeOK
  <2> QED
    BY <1>2, <1>3, <1>4, <2>1
<1>5. \A u \in Threads : May[u]' = May[u]
  BY DEF May
<1>6. ASSUME NEW u \in Threads \ {t} PROVE CallOK(u)' /\ ChangeOK(u)'
  <2>1. CallOK(u) /\ ChangeOK(u)
    BY DEF CtxInv
  <2>2. /\ pc'[u] = pc[u] /\ cptr'[u] = cptr[u] /\ gid'[u] = gid[u] /\ gptr'[u] = gptr[u]
        /\ mine'[u] = mine[u] /\ handle'[u] = handle[u]
    OBVIOUS
  <2>3. ASSUME pc[u] # "idle", NEW k \in Gids, ~(handle[u] = handle[t] /\ k = i)
        PROVE  Table(u)'[k] = Table(u)[k]
    <3>1. cptr[u] = data[handle[u]] /\ handle[u] \in Handles /\ data[handle[u]] # NullPtr
      BY <2>3, CallContext
    <3> QED
      BY <1>4, <2>2, <2>3, <3>1 DEF Table
  <2>4. ASSUME pc[u] \in OwnMethods \cup {"update_job_status"} \cup EntryPcs
        PROVE  gid[u] \in Gids /\ Table(u)'[gid[u]] = Table(u)[gid[u]]
    <3>1. gid[u] \in Gids
      BY <2>1, <2>4 DEF CallOK, ChangeOK
    <3>2. ~(handle[u] = handle[t] /\ gid[u] = i)
      BY <2>1, <2>4 DEF CallOK, Claims
    <3>3. pc[u] # "idle"
      BY <2>4 DEF OwnMethods, EntryPcs
    <3> QED
      BY <2>3, <3>1, <3>2, <3>3
  <2>5. ASSUME pc[u] \in {"force_deinit", "destroy_ctx_ref"}, NEW k \in Gids
        PROVE  Table(u)'[k] = Table(u)[k]
    <3>1. handle[u] # handle[t]
      BY <2>5 DEF CtxInv, Apart, DeinitPcs
    <3> QED
      BY <2>3, <2>5, <3>1
  <2>6. CallOK(u)'
    BY <1>5, <2>1, <2>2, <2>4, <2>5 DEF CallOK, JobEnded
  <2>7. ASSUME pc[u] = "publish" PROVE \A c \in Ctxs, k \in Gids : graphs'[c][k] # gptr[u]
    BY <1>2, <2>1, <2>7 DEF ChangeOK
  <2>8. ChangeOK(u)'
    <3>1. pc[u] \in EntryPcs => gid[u] \in Gids /\ Table(u)'[gid[u]] = Table(u)[gid[u]]
      BY <2>4
    <3> QED
      BY <1>5, <2>1, <2>2, <2>7, <3>1 DEF ChangeOK, EntryPcs
  <2> QED
    BY <2>6, <2>8
<1>7. ASSUME NEW u \in Threads \ {t} PROVE MineOK(u)'
  <2> SUFFICES ASSUME NEW d \in mine'[u]
      PROVE /\ d[1] \in open'
            /\ \/ Changes(u, d[1], d[2])'
               \/ \E w \in Threads : pc'[w] = "destroy_ctx_ref" /\ handle'[w] = d[1]
               \/ /\ graphs'[data'[d[1]]][d[2]] \in Objs
                  /\ obj'[graphs'[data'[d[1]]][d[2]]] = "loaded"
    BY DEF MineOK
  <2>1. d \in mine[u] /\ d[1] \in Handles /\ d[2] \in Gids /\ d = <<d[1], d[2]>>
    BY DEF CtxInv, CtxTypeOK
  <2>2. /\ d[1] \in open
        /\ \/ Changes(u, d[1], d[2])
           \/ \E w \in Threads : pc[w] = "destroy_ctx_ref" /\ handle[w] = d[1]
           \/ graphs[data[d[1]]][d[2]] \in Objs /\ obj[graphs[data[d[1]]][d[2]]] = "loaded"
    <3>1. MineOK(u)
      BY DEF CtxInv
    <3> QED
      BY <2>1, <3>1 DEF MineOK
  <2>3. ~(d[1] = handle[t] /\ d[2] = i)
    <3>1. <<d[1], d[2]>> \in Claims(u)
      BY <2>1 DEF Claims
    <3>2. <<handle[t], i>> \notin Claims(u)
      OBVIOUS
    <3> QED
      BY <3>1, <3>2
  <2>4. graphs'[data[d[1]]][d[2]] = graphs[data[d[1]]][d[2]]
    <3>1. data[d[1]] # NullPtr
      BY <2>2, OpenHandle
    <3> QED
      BY <1>4, <2>1, <2>3, <3>1
  <2>5. \A w \in Threads : pc[w] = "destroy_ctx_ref" => pc'[w] = pc[w]
    BY DEF DeinitPcs
  <2> QED
    BY <2>2, <2>4, <2>5 DEF Changes
<1>8. ASSUME NEW h \in Handles, NEW k \in Gids, data'[h] # NullPtr, ~(h = handle[t] /\ k = i)
      PROVE  EntryOK(h, k)'
  <2>1. EntryOK(h, k)
    BY <1>8 DEF CtxInv
  <2>2. ASSUME NEW w \in Threads, Changes(w, h, k)
        PROVE  Changes(w, h, k)' /\ (pc[w] = "erase" => pc'[w] = "erase")
    <3>1. w # t
      BY <1>8, <2>2 DEF Changes
    <3> QED
      BY <2>2, <3>1 DEF Changes
  <2>3. graphs'[data'[h]][k] = graphs[data[h]][k]
    BY <1>4, <1>8
  <2> QED
    BY <1>5, <2>1, <2>2, <2>3 DEF EntryOK
<1> QED
  BY <1>2, <1>6, <1>7, <1>8

\* What remains to be shown of a step of t.
LEMMA OneThread ==
  ASSUME CtxTypeOK', MapOK', ObjsOK',
         \A h \in Handles, k \in Gids : data'[h] # NullPtr => EntryOK(h, k)',
         NEW t \in Threads, CallOK(t)', ChangeOK(t)', MineOK(t)',
         \A u \in Threads \ {t} : CallOK(u)' /\ ChangeOK(u)' /\ MineOK(u)',
         \A u \in Threads \ {t} : Apart(t, u)' /\ Apart(u, t)',
         \A u, w \in Threads \ {t} : u # w => Apart(u, w)'
  PROVE  CtxInv'
BY DEF CtxInv

\* Two other threads stay apart.
LEMMA OthersApart ==
  ASSUME CtxInv, NEW t \in Threads,
         \A u \in Threads \ {t} :
            pc'[u] = pc[u] /\ handle'[u] = handle[u] /\ gid'[u] = gid[u] /\ gptr'[u] = gptr[u],
         \A u \in Threads \ {t} : mine'[u] \subseteq mine[u]
  PROVE  /\ \A u, w \in Threads \ {t} : u # w => Apart(u, w)'
         /\ \A u \in Threads \ {t} : Claims(u)' \subseteq Claims(u)
<1>1. \A u \in Threads \ {t} : Claims(u)' \subseteq Claims(u)
  BY DEF Claims
<1>2. ASSUME NEW u \in Threads \ {t}, NEW w \in Threads \ {t}, u # w PROVE Apart(u, w)'
  <2>1. Apart(u, w)
    BY <1>2 DEF CtxInv
  <2>2. Claims(u)' \cap Claims(w)' = {}
    BY <1>1, <2>1 DEF Apart
  <2> QED
    BY <2>1, <2>2 DEF Apart
<1> QED
  BY <1>1, <1>2

\* A live context: the handles given to the application.
LEMMA TableStays ==
  ASSUME CtxInv, NEW t \in Threads, pc[t] \notin {"idle", "init"},
         UNCHANGED <<data, ctx, open>>,
         \A c \in Ctxs, k \in Gids : c # cptr[t] => graphs'[c][k] = graphs[c][k]
  PROVE  MapOK'
<1>1. ctx[cptr[t]] = "live"
  <2>1. CallOK(t) /\ (\A h \in open : ctx[data[h]] = "live")
    BY DEF CtxInv, MapOK
  <2>2. cptr[t] = data[handle[t]] /\ handle[t] \in open
    BY <2>1 DEF CallOK
  <2> QED
    BY <2>1, <2>2
<1>2. ASSUME NEW c \in Ctxs, ctx[c] # "live", NEW k \in Gids PROVE graphs'[c][k] = Absent
  <2>1. graphs[c][k] = Absent
    BY <1>2 DEF CtxInv, MapOK
  <2> QED
    BY <1>1, <1>2, <2>1
<1>3. \A h \in Handles, k \in Handles : data[h] # NullPtr /\ data[h] = data[k] => h = k
  BY DEF CtxInv, MapOK
<1>4. \A h \in Handles : data[h] # NullPtr => ctx[data[h]] \in {"made", "live"}
  BY DEF CtxInv, MapOK
<1>5. \A h \in open : data[h] # NullPtr /\ ctx[data[h]] = "live"
  BY DEF CtxInv, MapOK
<1> QED
  BY <1>2, <1>3, <1>4, <1>5 DEF MapOK

\* create_unique_graph_id_inner finds an id that no entry has.
LEMMA UniqueIdIsFree ==
  ASSUME NEW tab, IdsLeft(tab)
  PROVE  CreateUniqueGraphId(tab) \in Gids /\ tab[CreateUniqueGraphId(tab)] = Absent
<1>1. {i \in Gids : tab[i] = Absent} # {}
  BY DEF IdsLeft
<1>2. {i \in Gids : tab[i] = Absent} \subseteq Nat
  BY ContextAssumption DEF Gids
<1> QED
  BY <1>1, <1>2, MinIn DEF CreateUniqueGraphId

\* load_graph reserves an id that no entry has: a null pointer in the table.
LEMMA LoadReserveStep ==
  ASSUME CtxInv, NEW t \in Threads, LoadReserve(t)
  PROVE  CtxInv'
<1>1. /\ pc[t] = "load_graph" /\ Goto(t, "create_graph_object") /\ IdsLeft(Table(t))
      /\ UNCHANGED <<setup, data, ctx, fd, obj, job, handle, cptr, gptr, mine, open>>
  BY DEF LoadReserve, At
<1>2. PICK i : i = CreateUniqueGraphId(Table(t)) /\ gid' = [gid EXCEPT ![t] = i]
               /\ SetEntry(t, i, NullPtr)
  BY DEF LoadReserve
<1>3. i \in Gids /\ Table(t)[i] = Absent
  BY <1>1, <1>2, UniqueIdIsFree
<1>4. /\ cptr[t] \in Ctxs /\ cptr[t] = data[handle[t]] /\ handle[t] \in Handles
      /\ data[handle[t]] # NullPtr /\ handle[t] \in open
  BY <1>1, CallContext DEF CtxInv, CallOK
<1>5. Absent \notin Objs /\ Absent # NullPtr /\ NullPtr \notin Objs
  BY ContextAssumption DEF Objs, Absent, NullPtr
<1>6. ASSUME NEW u \in Threads \ {t}
      PROVE  /\ <<handle[t], i>> \notin Claims(u)
             /\ pc[u] = "update_job_status" /\ handle[u] = handle[t] => gid[u] # i
             /\ pc[u] = "publish" => gptr[u] # NullPtr
  <2>1. MineOK(u) /\ ChangeOK(u) /\ CallOK(u) /\ Apart(u, t)
    BY DEF CtxInv
  <2>2. ASSUME pc[u] # "idle", handle[u] = handle[t] PROVE Table(u) = Table(t)
    BY <1>4, <2>2, CallContext DEF Table
  <2>3. ~(pc[u] \in EntryPcs /\ handle[u] = handle[t] /\ gid[u] = i)
    BY <1>3, <1>5, <2>1, <2>2 DEF ChangeOK, EntryPcs
  <2>4. <<handle[t], i>> \notin mine[u]
    <3> SUFFICES ASSUME <<handle[t], i>> \in mine[u] PROVE FALSE
      OBVIOUS
    <3>1. ~Changes(u, handle[t], i)
      BY <2>3 DEF Changes
    <3>2. ASSUME NEW w \in Threads, pc[w] = "destroy_ctx_ref", handle[w] = handle[t] PROVE FALSE
      BY <1>1, <3>2 DEF CtxInv, Apart, DeinitPcs
    <3> QED
      BY <1>3, <1>4, <1>5, <2>1, <3>1, <3>2 DEF MineOK, Table
  <2>5. <<handle[t], i>> \notin Claims(u)
    BY <2>3, <2>4 DEF Claims
  <2>6. pc[u] = "update_job_status" /\ handle[u] = handle[t] => gid[u] # i
    BY <1>3, <1>5, <2>1, <2>2 DEF CallOK
  <2>7. pc[u] = "publish" => gptr[u] # NullPtr
    BY <1>5, <2>1 DEF ChangeOK
  <2> QED
    BY <2>5, <2>6, <2>7
<1>7. /\ pc' \in [Threads -> Pcs] /\ gid' \in [Threads -> {0} \cup Gids]
      /\ pc'[t] = "create_graph_object" /\ gid'[t] = i
      /\ \A u \in Threads \ {t} :
           pc'[u] = pc[u] /\ cptr'[u] = cptr[u] /\ gid'[u] = gid[u] /\ gptr'[u] = gptr[u]
             /\ mine'[u] = mine[u] /\ handle'[u] = handle[u]
  BY <1>1, <1>2, <1>3 DEF Goto, CtxInv, CtxTypeOK, Pcs, EntryPcs
<1>8. pc[t] # "idle" /\ pc[t] \notin DeinitPcs \cup {"init"} /\ pc[t] \notin EntryPcs
  BY <1>1 DEF DeinitPcs, EntryPcs
<1>9. /\ \A u \in Threads \ {t} : CallOK(u)' /\ ChangeOK(u)' /\ MineOK(u)'
      /\ \A h \in Handles, k \in Gids :
           data'[h] # NullPtr /\ ~(h = handle[t] /\ k = i) => EntryOK(h, k)'
      /\ graphs' \in [Ctxs -> [Gids -> {Absent, NullPtr} \cup Objs]]
      /\ graphs'[cptr[t]][i] = NullPtr
      /\ \A c \in Ctxs, k \in Gids : ~(c = cptr[t] /\ k = i) => graphs'[c][k] = graphs[c][k]
  <2>1. NullPtr \in {Absent, NullPtr} \cup Objs
    OBVIOUS
  <2> QED
    BY <1>1, <1>2, <1>3, <1>6, <1>7, <1>8, <2>1, OtherEntries
<1>10. CtxTypeOK'
  BY <1>1, <1>7, <1>9 DEF CtxInv, CtxTypeOK
<1>11. MapOK'
  BY <1>1, <1>9, TableStays
<1>12. ObjsOK'
  BY <1>1, <1>5, <1>9 DEF CtxInv, ObjsOK
<1>13. ASSUME NEW h \in Handles, NEW k \in Gids, data'[h] # NullPtr PROVE EntryOK(h, k)'
  <2>1. CASE h = handle[t] /\ k = i
    <3>1. graphs'[data'[h]][k] = NullPtr
      BY <1>1, <1>4, <1>9, <2>1
    <3>2. Changes(t, h, k)'
      BY <1>1, <1>7, <2>1 DEF Changes, EntryPcs
    <3> QED
      BY <3>1, <3>2 DEF EntryOK
  <2> QED
    BY <1>9, <1>13, <2>1
<1>14. CallOK(t)'
  BY <1>1, <1>4, <1>7 DEF CallOK, OwnLookups, OwnMethods, UnloadPcs, PollPcs
<1>15. <<handle[t], i>> \notin mine[t]
  <2> SUFFICES ASSUME <<handle[t], i>> \in mine[t] PROVE FALSE
    OBVIOUS
  <2>1. MineOK(t)
    BY DEF CtxInv
  <2>2. ~Changes(t, handle[t], i)
    BY <1>8 DEF Changes
  <2>3. ASSUME NEW w \in Threads, pc[w] = "destroy_ctx_ref", handle[w] = handle[t] PROVE FALSE
    BY <1>1, <2>3 DEF CtxInv, Apart, DeinitPcs
  <2> QED
    BY <1>3, <1>4, <1>5, <2>1, <2>2, <2>3 DEF MineOK, Table
<1>16. ChangeOK(t)'
  BY <1>1, <1>3, <1>7, <1>9, <1>15 DEF ChangeOK, Table
<1>17. MineOK(t)'
  <2> SUFFICES ASSUME NEW d \in mine'[t]
      PROVE /\ d[1] \in open'
            /\ \/ Changes(t, d[1], d[2])'
               \/ \E w \in Threads : pc'[w] = "destroy_ctx_ref" /\ handle'[w] = d[1]
               \/ /\ graphs'[data'[d[1]]][d[2]] \in Objs
                  /\ obj'[graphs'[data'[d[1]]][d[2]]] = "loaded"
    BY DEF MineOK
  <2>1. d \in mine[t] /\ d[1] \in Handles /\ d[2] \in Gids /\ d = <<d[1], d[2]>>
    BY <1>1 DEF CtxInv, CtxTypeOK
  <2>2. /\ d[1] \in open
        /\ \/ Changes(t, d[1], d[2])
           \/ \E w \in Threads : pc[w] = "destroy_ctx_ref" /\ handle[w] = d[1]
           \/ graphs[data[d[1]]][d[2]] \in Objs /\ obj[graphs[data[d[1]]][d[2]]] = "loaded"
    BY <2>1 DEF CtxInv, MineOK
  <2>3. data[d[1]] \in Ctxs /\ (data[d[1]] = cptr[t] => d[1] = handle[t])
    BY <1>4, <2>1, <2>2 DEF CtxInv, CtxTypeOK, MapOK
  <2>4. graphs'[data[d[1]]][d[2]] = graphs[data[d[1]]][d[2]]
    BY <1>9, <1>15, <2>1, <2>3
  <2>5. \A w \in Threads : pc[w] = "destroy_ctx_ref" => pc'[w] = pc[w]
    BY <1>1, <1>7
  <2>6. ~Changes(t, d[1], d[2])
    BY <1>8 DEF Changes
  <2> QED
    BY <1>1, <2>2, <2>4, <2>5, <2>6
<1>18. /\ \A u, w \in Threads \ {t} : u # w => Apart(u, w)'
       /\ \A u \in Threads \ {t} : Claims(u)' \subseteq Claims(u)
  BY <1>1, <1>7, OthersApart
<1>19. ASSUME NEW u \in Threads \ {t} PROVE Apart(t, u)' /\ Apart(u, t)'
  <2>1. Apart(t, u) /\ Apart(u, t)
    BY DEF CtxInv
  <2>2. Claims(t)' = mine[t] \cup {<<handle[t], i>>}
    BY <1>1, <1>7 DEF Claims, EntryPcs
  <2>3. Claims(t)' \cap Claims(u)' = {}
    <3>1. mine[t] \cap Claims(u) = {}
      BY <2>1 DEF Apart, Claims
    <3>2. Claims(u)' \subseteq Claims(u) /\ <<handle[t], i>> \notin Claims(u)
      BY <1>6, <1>18
    <3> QED
      BY <2>2, <3>1, <3>2
  <2>4. pc'[t] \notin DeinitPcs \cup {"init"} /\ pc'[t] # "publish"
    BY <1>7 DEF DeinitPcs
  <2>5. pc'[u] \in DeinitPcs \cup {"init"} => handle'[u] # handle'[t]
    BY <1>1, <1>7, <1>8, <2>1 DEF Apart
  <2>6. Apart(t, u)'
    BY <2>3, <2>4 DEF Apart
  <2>7. Apart(u, t)'
    BY <2>3, <2>4, <2>5 DEF Apart
  <2> QED
    BY <2>6, <2>7
<1> QED
  BY <1>9, <1>10, <1>11, <1>12, <1>13, <1>14, <1>16, <1>17, <1>18, <1>19, OneThread

\* create_graph_object: the new object is in no table yet.
LEMMA CreateGraphObjectStep ==
  ASSUME CtxInv, NEW t \in Threads, CreateGraphObject(t)
  PROVE  CtxInv'
<1>1. /\ pc[t] = "create_graph_object" /\ Goto(t, "publish")
      /\ UNCHANGED <<setup, data, ctx, fd, graphs, job, handle, cptr, gid, mine, open>>
  BY DEF CreateGraphObject, At
<1>2. PICK g \in NewObjs : obj' = [obj EXCEPT ![g] = "loaded"] /\ gptr' = [gptr EXCEPT ![t] = g]
  BY DEF CreateGraphObject
<1>3. g \in Objs /\ obj[g] = "none"
  <2>1. setup.max_objs \in 1..MaxObjs
    BY ContextAssumption DEF CtxInv, CtxTypeOK
  <2> QED
    BY <1>2, <2>1, ContextAssumption DEF NewObjs, Objs
<1>4. /\ obj' \in [Objs -> {"none", "loaded", "unloaded", "deleted"}] /\ obj'[g] = "loaded"
      /\ \A o \in Objs : o # g => obj'[o] = obj[o]
  BY <1>2, <1>3 DEF CtxInv, CtxTypeOK
<1>5. \A c \in Ctxs, k \in Gids : graphs[c][k] # g
  BY <1>3 DEF CtxInv, ObjsOK
<1>6. \A c \in Ctxs, k \in Gids : graphs[c][k] \in Objs => obj'[graphs[c][k]] = obj[graphs[c][k]]
  BY <1>4, <1>5
<1>7. /\ pc' \in [Threads -> Pcs] /\ gptr' \in [Threads -> {NullPtr} \cup Objs]
      /\ pc'[t] = "publish" /\ gptr'[t] = g
      /\ \A u \in Threads \ {t} : pc'[u] = pc[u] /\ gptr'[u] = gptr[u]
  BY <1>1, <1>2, <1>3 DEF Goto, CtxInv, CtxTypeOK, Pcs, EntryPcs
<1>8. CtxTypeOK'
  BY <1>1, <1>4, <1>7 DEF CtxInv, CtxTypeOK
<1>9. MapOK' /\ ObjsOK'
  <2>1. MapOK'
    BY <1>1 DEF CtxInv, MapOK
  <2>2. ASSUME NEW o \in Objs, obj'[o] = "none" PROVE obj[o] = "none"
    BY <1>4, <2>2
  <2>3. ObjsOK'
    BY <1>1, <2>2 DEF CtxInv, ObjsOK
  <2> QED
    BY <2>1, <2>3
<1>10. \A u \in Threads : May[u]' = May[u] /\ Table(u)' = Table(u)
  BY <1>1 DEF May, Table
<1>11. /\ \A u \in Threads : \A h, k : Changes(u, h, k)' <=> Changes(u, h, k)
       /\ \A u \in Threads : pc[u] = "erase" => pc'[u] = "erase"
       /\ \A u \in Threads : pc[u] = "destroy_ctx_ref" => pc'[u] = "destroy_ctx_ref"
  BY <1>1, <1>7 DEF Changes, EntryPcs
<1>12. ASSUME NEW h \in Handles, NEW k \in Gids, data'[h] # NullPtr PROVE EntryOK(h, k)'
  <2>1. EntryOK(h, k) /\ data[h] \in Ctxs
    BY <1>1, <1>12 DEF CtxInv, CtxTypeOK
  <2>2. graphs[data[h]][k] \in Objs => obj'[graphs[data[h]][k]] = obj[graphs[data[h]][k]]
    BY <1>6, <2>1
  <2> QED
    BY <1>1, <1>10, <1>11, <2>1, <2>2 DEF EntryOK
<1>13. ASSUME NEW u \in Threads \ {t} PROVE CallOK(u)' /\ ChangeOK(u)'
  <2>1. CallOK(u) /\ ChangeOK(u)
    BY DEF CtxInv
  <2>2. pc'[u] = pc[u] /\ gptr'[u] = gptr[u]
    BY <1>7
  <2>3. CallOK(u)'
    BY <1>1, <1>10, <2>1, <2>2 DEF CallOK, JobEnded
  <2>4. pc[u] = "publish" => obj'[gptr[u]] = "loaded"
    BY <1>4, <2>1 DEF ChangeOK
  <2>5. pc[u] = "erase" /\ Table(u)[gid[u]] \in Objs =>
          obj'[Table(u)[gid[u]]] = obj[Table(u)[gid[u]]]
    <3> SUFFICES ASSUME pc[u] = "erase" PROVE cptr[u] \in Ctxs /\ gid[u] \in Gids
      BY <1>6 DEF Table
    <3> QED
      BY <2>1, CallContext DEF ChangeOK, EntryPcs
  <2>6. ChangeOK(u)'
    BY <1>1, <1>10, <2>1, <2>2, <2>4, <2>5 DEF ChangeOK
  <2> QED
    BY <2>3, <2>6
<1>14. CallOK(t) /\ ChangeOK(t)
  BY DEF CtxInv
<1>15. CallOK(t)'
  BY <1>1, <1>7, <1>14 DEF CallOK, OwnLookups, OwnMethods, UnloadPcs, PollPcs
<1>16. ChangeOK(t)'
  BY <1>1, <1>3, <1>4, <1>5, <1>7, <1>10, <1>14 DEF ChangeOK, EntryPcs
<1>17. ASSUME NEW u \in Threads PROVE MineOK(u)'
  <2>1. MineOK(u)
    BY DEF CtxInv
  <2>2. ASSUME NEW d \in mine[u]
        PROVE  graphs[data[d[1]]][d[2]] \in Objs =>
                 obj'[graphs[data[d[1]]][d[2]]] = obj[graphs[data[d[1]]][d[2]]]
    <3>1. d[1] \in open /\ d[2] \in Gids
      BY <2>1, <2>2 DEF MineOK, CtxInv, CtxTypeOK
    <3>2. data[d[1]] \in Ctxs
      BY <3>1, OpenHandle
    <3> QED
      BY <1>6, <3>1, <3>2
  <2> QED
    BY <1>1, <1>11, <2>1, <2>2 DEF MineOK
<1>18. \A u \in Threads : Claims(u)' = Claims(u)
  BY <1>1, <1>7 DEF Claims, EntryPcs
<1>19. ASSUME NEW u \in Threads, NEW w \in Threads, u # w PROVE Apart(u, w)'
  <2>1. Apart(u, w) /\ ChangeOK(u) /\ ChangeOK(w)
    BY <1>19 DEF CtxInv
  <2>2. \A x \in Threads : pc'[x] \in DeinitPcs \cup {"init"} <=> pc[x] \in DeinitPcs \cup {"init"}
    BY <1>1, <1>7 DEF DeinitPcs
  <2>3. \A x \in Threads : pc'[x] # "idle" <=> pc[x] # "idle"
    BY <1>1, <1>7
  <2>4. Claims(u)' \cap Claims(w)' = {}
    BY <1>18, <2>1 DEF Apart
  <2>5. pc'[u] = "publish" /\ pc'[w] = "publish" => gptr'[u] # gptr'[w]
    BY <1>3, <1>7, <1>19, <2>1 DEF Apart, ChangeOK
  <2> QED
    BY <1>1, <2>1, <2>2, <2>3, <2>4, <2>5 DEF Apart
<1> QED
  BY <1>8, <1>9, <1>12, <1>13, <1>15, <1>16, <1>17, <1>19 DEF CtxInv

\* t has changed its entry, and returns: the entry is a loaded graph of its own, or
\* no entry any more.
LEMMA EntryDone ==
  ASSUME CtxInv, NEW t \in Threads, pc[t] \in {"publish", "erase"},
         NEW g \in {Absent} \cup Objs, SetEntry(t, gid[t], g), Return(t),
         UNCHANGED <<setup, data, ctx, fd, obj, job, handle, gid, open>>,
         \/ g = Absent /\ mine' = [mine EXCEPT ![t] = @ \ {<<handle[t], gid[t]>>}]
         \/ /\ g \in Objs /\ obj[g] = "loaded" /\ (\A c \in Ctxs, k \in Gids : graphs[c][k] # g)
            /\ mine' = [mine EXCEPT ![t] = @ \cup {<<handle[t], gid[t]>>}],
         \A u \in Threads \ {t} : pc[u] = "publish" => gptr[u] # g,
         \A u \in Threads \ {t} :
           pc[u] = "update_job_status" /\ handle[u] = handle[t] => gid[u] # gid[t]
  PROVE  CtxInv'
<1>1. /\ cptr[t] \in Ctxs /\ cptr[t] = data[handle[t]] /\ handle[t] \in Handles
      /\ data[handle[t]] # NullPtr /\ handle[t] \in open
  <2>1. CallOK(t) /\ pc[t] # "idle" /\ pc[t] # "init"
    BY DEF CtxInv
  <2> QED
    BY <2>1, CallContext DEF CallOK
<1>2. PICK i \in Gids : i = gid[t]
  BY DEF CtxInv, ChangeOK, EntryPcs
<1>3. Absent \notin Objs
  BY ContextAssumption DEF Objs, Absent
<1>4. /\ pc' \in [Threads -> Pcs] /\ cptr' \in [Threads -> {NullPtr} \cup Ctxs]
      /\ gptr' \in [Threads -> {NullPtr} \cup Objs] /\ pc'[t] = "idle"
      /\ \A u \in Threads \ {t} : pc'[u] = pc[u] /\ cptr'[u] = cptr[u] /\ gptr'[u] = gptr[u]
  BY DEF Return, Goto, CtxInv, CtxTypeOK, Pcs
<1>5. /\ mine' \in [Threads -> SUBSET (Handles \X Gids)]
      /\ \A u \in Threads \ {t} : mine'[u] = mine[u]
      /\ mine'[t] \subseteq mine[t] \cup {<<handle[t], i>>}
      /\ g = Absent => <<handle[t], i>> \notin mine'[t]
  BY <1>1, <1>2, <1>3 DEF CtxInv, CtxTypeOK
<1>6. pc[t] \in EntryPcs /\ pc[t] \notin DeinitPcs \cup {"idle", "init"}
  BY DEF EntryPcs, DeinitPcs
<1>7. Claims(t)' \subseteq Claims(t) /\ <<handle[t], i>> \in Claims(t)
  BY <1>2, <1>4, <1>5, <1>6 DEF Claims, EntryPcs
<1>8. ASSUME NEW u \in Threads \ {t} PROVE <<handle[t], i>> \notin Claims(u)
  <2>1. Apart(t, u)
    BY DEF CtxInv
  <2> QED
    BY <1>7, <2>1 DEF Apart
<1>9. /\ \A u \in Threads \ {t} : CallOK(u)' /\ ChangeOK(u)' /\ MineOK(u)'
      /\ \A h \in Handles, k \in Gids :
           data'[h] # NullPtr /\ ~(h = handle[t] /\ k = i) => EntryOK(h, k)'
      /\ graphs' \in [Ctxs -> [Gids -> {Absent, NullPtr} \cup Objs]]
      /\ graphs'[cptr[t]][i] = g
      /\ \A c \in Ctxs, k \in Gids : ~(c = cptr[t] /\ k = i) => graphs'[c][k] = graphs[c][k]
  <2>1. g \in {Absent, NullPtr} \cup Objs /\ SetEntry(t, i, g)
    BY <1>2
  <2>2. \A u \in Threads \ {t} : gid'[u] = gid[u]
    OBVIOUS
  <2> QED
    BY <1>2, <1>4, <1>5, <1>6, <1>8, <2>1, <2>2, OtherEntries
<1>10. CtxTypeOK'
  BY <1>4, <1>5, <1>9 DEF CtxInv, CtxTypeOK
<1>11. MapOK'
  BY <1>6, <1>9, TableStays
<1>12. ObjsOK'
  <2>1. ASSUME NEW c \in Ctxs, NEW e \in Ctxs, NEW k \in Gids, NEW m \in Gids,
               graphs'[c][k] \in Objs, graphs'[c][k] = graphs'[e][m]
        PROVE  c = e /\ k = m
    <3>1. graphs[c][k] \in Objs /\ graphs[c][k] = graphs[e][m] => c = e /\ k = m
      BY DEF CtxInv, ObjsOK
    <3> QED
      BY <1>1, <1>3, <1>9, <2>1, <3>1
  <2>2. ASSUME NEW o \in Objs, obj'[o] = "none", NEW c \in Ctxs, NEW k \in Gids
        PROVE  graphs'[c][k] # o
    <3>1. graphs[c][k] # o
      BY <2>2 DEF CtxInv, ObjsOK
    <3> QED
      BY <1>1, <1>3, <1>9, <2>2, <3>1
  <2> QED
    BY <2>1, <2>2 DEF ObjsOK
<1>13. ASSUME NEW h \in Handles, NEW k \in Gids, data'[h] # NullPtr PROVE EntryOK(h, k)'
  <2>1. CASE h = handle[t] /\ k = i
    BY <1>1, <1>9, <2>1 DEF EntryOK
  <2> QED
    BY <1>9, <1>13, <2>1
<1>14. CallOK(t)' /\ ChangeOK(t)'
  BY <1>4 DEF CallOK, ChangeOK, EntryPcs, OwnLookups, OwnMethods, UnloadPcs, PollPcs
<1>15. MineOK(t)'
  <2> SUFFICES ASSUME NEW d \in mine'[t]
      PROVE /\ d[1] \in open'
            /\ \/ Changes(t, d[1], d[2])'
               \/ \E w \in Threads : pc'[w] = "destroy_ctx_ref" /\ handle'[w] = d[1]
               \/ /\ graphs'[data'[d[1]]][d[2]] \in Objs
                  /\ obj'[graphs'[data'[d[1]]][d[2]]] = "loaded"
    BY DEF MineOK
  <2>1. CASE d = <<handle[t], i>>
    BY <1>1, <1>5, <1>9, <2>1
  <2>2. CASE d # <<handle[t], i>>
    <3>1. d \in mine[t] /\ d[1] \in Handles /\ d[2] \in Gids /\ d = <<d[1], d[2]>>
      BY <1>5, <2>2 DEF CtxInv, CtxTypeOK
    <3>2. /\ d[1] \in open
          /\ \/ Changes(t, d[1], d[2])
             \/ \E w \in Threads : pc[w] = "destroy_ctx_ref" /\ handle[w] = d[1]
             \/ graphs[data[d[1]]][d[2]] \in Objs /\ obj[graphs[data[d[1]]][d[2]]] = "loaded"
      BY <3>1 DEF CtxInv, MineOK
    <3>3. data[d[1]] \in Ctxs /\ (data[d[1]] = cptr[t] => d[1] = handle[t])
      BY <1>1, <3>1, <3>2 DEF CtxInv, CtxTypeOK, MapOK
    <3>4. graphs'[data[d[1]]][d[2]] = graphs[data[d[1]]][d[2]]
      BY <1>9, <2>2, <3>1, <3>3
    <3>5. \A w \in Threads : pc[w] = "destroy_ctx_ref" => pc'[w] = pc[w]
      BY <1>4
    <3>6. ~Changes(t, d[1], d[2])
      BY <1>2, <2>2, <3>1 DEF Changes
    <3> QED
      BY <3>2, <3>4, <3>5, <3>6
  <2> QED
    BY <2>1, <2>2
<1>16. /\ \A u, w \in Threads \ {t} : u # w => Apart(u, w)'
       /\ \A u \in Threads \ {t} : Claims(u)' \subseteq Claims(u)
  BY <1>4, <1>5, OthersApart
<1>17. ASSUME NEW u \in Threads \ {t} PROVE Apart(t, u)' /\ Apart(u, t)'
  <2>1. Claims(t) \cap Claims(u) = {}
    BY DEF CtxInv, Apart
  <2>2. Claims(t)' \cap Claims(u)' = {}
    BY <1>7, <1>16, <2>1
  <2> QED
    BY <1>4, <2>2 DEF Apart, DeinitPcs
<1> QED
  BY <1>9, <1>10, <1>11, <1>12, <1>13, <1>14, <1>15, <1>16, <1>17, OneThread

\* load_graph publishes the object it has made.
LEMMA LoadPublishStep ==
  ASSUME CtxInv, NEW t \in Threads, LoadPublish(t)
  PROVE  CtxInv'
<1>1. /\ pc[t] = "publish" /\ SetEntry(t, gid[t], gptr[t]) /\ Return(t)
      /\ mine' = [mine EXCEPT ![t] = @ \cup {<<handle[t], gid[t]>>}]
      /\ UNCHANGED <<setup, data, ctx, fd, obj, job, handle, gid, open>>
  BY DEF LoadPublish, At
<1>2. /\ gptr[t] \in Objs /\ obj[gptr[t]] = "loaded"
      /\ \A c \in Ctxs, k \in Gids : graphs[c][k] # gptr[t]
      /\ Table(t)[gid[t]] = NullPtr
  BY <1>1 DEF CtxInv, ChangeOK
<1>3. ASSUME NEW u \in Threads \ {t}, pc[u] = "publish" PROVE gptr[u] # gptr[t]
  BY <1>1, <1>3 DEF CtxInv, Apart
<1>4. ASSUME NEW u \in Threads \ {t}, pc[u] = "update_job_status", handle[u] = handle[t]
      PROVE  gid[u] # gid[t]
  <2>1. Table(u) = Table(t)
    BY <1>1, <1>4, CallContext DEF Table
  <2>2. Table(u)[gid[u]] \in Objs
    BY <1>4 DEF CtxInv, CallOK
  <2> QED
    BY <1>2, <2>1, <2>2, ContextAssumption DEF Objs, NullPtr
<1> QED
  BY <1>1, <1>2, <1>3, <1>4, EntryDone

\* The entry of a graph that is gone, or was never loaded, is erased.
LEMMA EraseEntryStep ==
  ASSUME PollApart, CtxInv, NEW t \in Threads, EraseEntry(t)
  PROVE  CtxInv'
<1>0. Absent \notin Objs /\ NullPtr \notin Objs
  BY ContextAssumption DEF Objs, Absent, NullPtr
<1>1. /\ pc[t] = "erase" /\ SetEntry(t, gid[t], Absent) /\ Return(t)
      /\ mine' = [mine EXCEPT ![t] = @ \ {<<handle[t], gid[t]>>}]
      /\ UNCHANGED <<setup, data, ctx, fd, obj, job, handle, gid, open>>
  BY DEF EraseEntry, At
<1>2. ASSUME NEW u \in Threads \ {t}, pc[u] = "publish" PROVE gptr[u] # Absent
  <2>1. gptr[u] \in Objs
    BY <1>2 DEF CtxInv, ChangeOK
  <2> QED
    BY <2>1, <1>0
<1>3. ASSUME NEW u \in Threads \ {t}, pc[u] = "update_job_status", handle[u] = handle[t],
             gid[u] = gid[t]
      PROVE  FALSE
  <2>1. Table(u) = Table(t)
    BY <1>1, <1>3, CallContext DEF Table
  <2>2. Table(t)[gid[t]] \in Objs /\ "poll_jobs_status" \in May[u]
    <3>1. CallOK(u)
      BY DEF CtxInv
    <3> QED
      BY <1>3, <2>1, <3>1 DEF CallOK, PollPcs
  <2>3. "unload_graph" \in May[t]
    <3>1. ChangeOK(t)
      BY DEF CtxInv
    <3> QED
      BY <1>0, <1>1, <2>2, <3>1 DEF ChangeOK
  <2> QED
    BY <2>2, <2>3 DEF PollApart, May, CtxInv, CtxTypeOK
<1> QED
  BY <1>1, <1>2, <1>3, EntryDone

\* The object is deleted; its entry still points to it, until it is erased.
LEMMA DestroyGraphObjectStep ==
  ASSUME CtxInv, NEW t \in Threads, DestroyGraphObject(t)
  PROVE  CtxInv'
<1>1. /\ pc[t] = "destroy_graph_object"
      /\ UNCHANGED <<setup, data, ctx, fd, graphs, handle, gid, mine, open>>
  BY DEF DestroyGraphObject, At
<1>2. CASE /\ job' = [job EXCEPT ![gptr[t]] = IF UnloadHalf(gptr[t]) THEN "HALF" ELSE @]
           /\ Return(t) /\ UNCHANGED obj
  <2>1. /\ \A g \in Objs : JobEnded(g) => JobEnded(g)'
        /\ job' \in [Objs -> JobStates]
    BY <1>2 DEF JobEnded, JobStates, CtxInv, CtxTypeOK
  <2> QED
    BY <1>1, <1>2, <2>1, ReturnStep DEF EntryPcs
<1>3. CASE /\ obj' = [obj EXCEPT ![gptr[t]] = "deleted"]
           /\ job[gptr[t]] = "none"
           /\ Goto(t, "erase") /\ UNCHANGED <<job, cptr, gptr>>
  <2>1. /\ gid[t] \in Gids /\ handle[t] \in Handles /\ cptr[t] \in Ctxs
        /\ Table(t)[gid[t]] \in Objs
        /\ gptr[t] = Table(t)[gid[t]] /\ <<handle[t], gid[t]>> \in mine[t]
        /\ cptr[t] = data[handle[t]] /\ data[handle[t]] # NullPtr
        /\ "unload_graph" \in May[t]
    <3>1. CallOK(t) /\ pc[t] \in OwnMethods /\ pc[t] \in UnloadPcs /\ pc[t] # "idle"
      BY <1>1 DEF CtxInv, OwnMethods, UnloadPcs
    <3>2. /\ gptr[t] = Table(t)[gid[t]] /\ <<handle[t], gid[t]>> \in mine[t]
          /\ "unload_graph" \in May[t]
      BY <3>1 DEF CallOK
    <3> QED
      BY <3>1, <3>2, OwnEntry, CallContext
  <2>2. PICK g \in Objs : g = gptr[t]
    BY <2>1
  <2>3. /\ obj' \in [Objs -> {"none", "loaded", "unloaded", "deleted"}] /\ obj'[g] = "deleted"
        /\ job' \in [Objs -> JobStates] /\ job'[g] = "none"
        /\ \A o \in Objs : o # g => obj'[o] = obj[o] /\ job'[o] = job[o]
    BY <1>3, <2>2 DEF CtxInv, CtxTypeOK
  <2>4. /\ pc' \in [Threads -> Pcs] /\ pc'[t] = "erase"
        /\ \A u \in Threads \ {t} : pc'[u] = pc[u]
    BY <1>3 DEF Goto, CtxInv, CtxTypeOK, Pcs, EntryPcs
  \* g is the graph of this entry and of no other.
  <2>5. \A h \in Handles, k \in Gids :
          data[h] # NullPtr /\ graphs[data[h]][k] = g => h = handle[t] /\ k = gid[t]
    <3> SUFFICES ASSUME NEW h \in Handles, NEW k \in Gids, data[h] # NullPtr, graphs[data[h]][k] = g
                 PROVE  h = handle[t] /\ k = gid[t]
      OBVIOUS
    <3>1. data[h] \in Ctxs
      BY DEF CtxInv, CtxTypeOK
    <3>2. data[h] = cptr[t] /\ k = gid[t]
      BY <2>1, <2>2, <3>1 DEF CtxInv, ObjsOK, Table
    <3> QED
      BY <2>1, <3>2 DEF CtxInv, MapOK
  <2>6. CtxTypeOK'
    BY <1>1, <1>3, <2>3, <2>4 DEF CtxInv, CtxTypeOK
  <2>7. MapOK' /\ ObjsOK'
    <3>1. MapOK'
      BY <1>1 DEF CtxInv, MapOK
    <3>2. ASSUME NEW o \in Objs, obj'[o] = "none" PROVE obj[o] = "none"
      BY <2>3, <3>2
    <3>3. ObjsOK'
      BY <1>1, <3>2 DEF CtxInv, ObjsOK
    <3> QED
      BY <3>1, <3>3
  <2>8. \A u \in Threads : May[u]' = May[u] /\ Table(u)' = Table(u)
    BY <1>1, <1>3 DEF May, Table
  <2>9. /\ \A u \in Threads : \A h, k : Changes(u, h, k) => Changes(u, h, k)'
        /\ \A u \in Threads : pc[u] = "erase" => pc'[u] = "erase"
        /\ \A u \in Threads : pc[u] = "destroy_ctx_ref" => pc'[u] = "destroy_ctx_ref"
    BY <1>1, <2>4 DEF Changes, EntryPcs
  <2>10. ASSUME NEW h \in Handles, NEW k \in Gids, data'[h] # NullPtr PROVE EntryOK(h, k)'
    <3>1. EntryOK(h, k) /\ data'[h] = data[h] /\ graphs' = graphs
      BY <1>1, <2>10 DEF CtxInv
    <3>2. CASE graphs[data[h]][k] = g
      <4>1. Changes(t, h, k)'
        BY <1>1, <2>4, <2>5, <2>10, <3>1, <3>2 DEF Changes, EntryPcs
      <4>2. graphs'[data'[h]][k] \in Objs /\ obj'[graphs'[data'[h]][k]] = "deleted"
        BY <2>3, <3>1, <3>2
      <4> QED
        BY <2>1, <2>4, <2>8, <4>1, <4>2 DEF EntryOK
    <3>3. CASE graphs[data[h]][k] # g
      <4>1. graphs[data[h]][k] \in Objs => obj'[graphs[data[h]][k]] = obj[graphs[data[h]][k]]
        BY <2>3, <3>3
      <4> QED
        BY <2>8, <2>9, <3>1, <4>1 DEF EntryOK
    <3> QED
      BY <3>2, <3>3
  <2>11. ASSUME NEW u \in Threads \ {t} PROVE CallOK(u)' /\ ChangeOK(u)'
    <3>1. CallOK(u) /\ ChangeOK(u)
      BY DEF CtxInv
    <3>2. pc'[u] = pc[u]
      BY <2>4
    <3>3. ASSUME pc[u] = "force_deinit", NEW k \in Gids, Table(u)[k] # Absent
          PROVE  JobEnded(Table(u)[k])'
      <4>1. PICK o \in Objs : o = Table(u)[k] /\ JobEnded(o)
        BY <3>1, <3>3, DeinitEntry DEF CallOK
      <4>2. JobEnded(o)'
        BY <2>3, <4>1 DEF JobEnded
      <4> QED
        BY <2>8, <4>1, <4>2 DEF JobEnded
    <3>4. CallOK(u)'
      BY <1>1, <1>3, <2>8, <3>1, <3>2, <3>3 DEF CallOK, JobEnded
    <3>5. pc[u] = "publish" => gptr[u] \in Objs /\ obj'[gptr[u]] = "loaded"
      <4> SUFFICES ASSUME pc[u] = "publish"
                   PROVE  gptr[u] # g /\ gptr[u] \in Objs /\ obj[gptr[u]] = "loaded"
        BY <2>3
      <4> QED
        BY <2>1, <2>2, <3>1 DEF ChangeOK, Table
    <3>6. Table(u)[gid[u]] \in Objs /\ obj[Table(u)[gid[u]]] = "deleted" =>
            obj'[Table(u)[gid[u]]] = "deleted"
      BY <2>3
    <3>7. ChangeOK(u)'
      BY <1>1, <1>3, <2>8, <3>1, <3>2, <3>5, <3>6 DEF ChangeOK
    <3> QED
      BY <3>4, <3>7
  <2>12. CallOK(t)' /\ ChangeOK(t)'
    <3>1. CallOK(t)
      BY DEF CtxInv
    <3>2. CallOK(t)'
      BY <1>1, <1>3, <2>4, <3>1 DEF CallOK, OwnLookups, OwnMethods, UnloadPcs, PollPcs
    <3>3. ChangeOK(t)'
      BY <1>1, <2>1, <2>2, <2>3, <2>4, <2>8 DEF ChangeOK
    <3> QED
      BY <3>2, <3>3
  <2>13. ASSUME NEW u \in Threads PROVE MineOK(u)'
    <3> SUFFICES ASSUME NEW d \in mine[u]
        PROVE /\ d[1] \in open
              /\ \/ Changes(u, d[1], d[2])'
                 \/ \E w \in Threads : pc'[w] = "destroy_ctx_ref" /\ handle[w] = d[1]
                 \/ graphs[data[d[1]]][d[2]] \in Objs /\ obj'[graphs[data[d[1]]][d[2]]] = "loaded"
      BY <1>1 DEF MineOK
    <3>1. d[1] \in Handles /\ d[2] \in Gids /\ d = <<d[1], d[2]>>
      BY DEF CtxInv, CtxTypeOK
    <3>2. /\ d[1] \in open
          /\ \/ Changes(u, d[1], d[2])
             \/ \E w \in Threads : pc[w] = "destroy_ctx_ref" /\ handle[w] = d[1]
             \/ graphs[data[d[1]]][d[2]] \in Objs /\ obj[graphs[data[d[1]]][d[2]]] = "loaded"
      BY DEF CtxInv, MineOK
    <3>3. ASSUME graphs[data[d[1]]][d[2]] = g PROVE Changes(u, d[1], d[2])'
      <4>1. d = <<handle[t], gid[t]>>
        BY <2>5, <3>1, <3>2, <3>3, OpenHandle
      <4>2. u = t
        <5> SUFFICES ASSUME u # t PROVE mine[u] \cap mine[t] = {}
          BY <2>1, <4>1
        <5> QED
          BY DEF CtxInv, Apart, Claims
      <4> QED
        BY <1>1, <2>4, <4>1, <4>2 DEF Changes, EntryPcs
    <3> QED
      BY <2>3, <2>9, <3>2, <3>3
  <2>14. \A u \in Threads : Claims(u)' = Claims(u)
    BY <1>1, <2>1, <2>4 DEF Claims, EntryPcs
  <2>15. ASSUME NEW u \in Threads, NEW w \in Threads, u # w PROVE Apart(u, w)'
    <3>1. Apart(u, w)
      BY <2>15 DEF CtxInv
    <3>2. \A x \in Threads :
            /\ pc'[x] \in DeinitPcs \cup {"init"} <=> pc[x] \in DeinitPcs \cup {"init"}
            /\ pc'[x] # "idle" <=> pc[x] # "idle"
            /\ pc'[x] = "publish" <=> pc[x] = "publish"
      BY <1>1, <2>4 DEF DeinitPcs
    <3>3. Claims(u)' \cap Claims(w)' = {}
      BY <2>14, <3>1 DEF Apart
    <3> QED
      BY <1>1, <1>3, <3>1, <3>2, <3>3 DEF Apart
  <2> QED
    BY <2>6, <2>7, <2>10, <2>11, <2>12, <2>13, <2>15 DEF CtxInv
<1> QED
  BY <1>2, <1>3 DEF DestroyGraphObject

-----------------------------------------------------------------------------
(* Steps that make a context or give one up.                               *)

\* t is alone with the handle h.  Its step changes nothing outside the context of h,
\* and leaves that one with an empty table, if it leaves it in the map.
LEMMA OtherContexts ==
  ASSUME CtxInv, NEW t \in Threads, NEW h \in Handles,
         \A u \in Threads \ {t} : pc[u] # "idle" => handle[u] # h,
         pc[t] # "idle" => handle[t] = h, pc'[t] # "idle" => handle'[t] = h,
         pc[t] \notin EntryPcs, pc'[t] \notin EntryPcs,
         setup' = setup,
         \A u \in Threads \ {t} :
            pc'[u] = pc[u] /\ handle'[u] = handle[u] /\ cptr'[u] = cptr[u]
              /\ gid'[u] = gid[u] /\ gptr'[u] = gptr[u],
         \A k \in Handles \ {h} : /\ data'[k] = data[k] /\ (k \in open' <=> k \in open)
                                  /\ data[k] # NullPtr => /\ ctx'[data[k]] = ctx[data[k]]
                                                          /\ graphs'[data[k]] = graphs[data[k]],
         \A c \in Ctxs, i \in Gids : graphs'[c][i] \in {graphs[c][i], Absent},
         data'[h] # NullPtr => \A i \in Gids : graphs'[data'[h]][i] = Absent,
         \A g \in Objs : /\ obj'[g] = "none" => obj[g] = "none"
                         /\ \/ obj'[g] = obj[g] /\ job'[g] = job[g]
                            \/ data[h] # NullPtr /\ \E i \in Gids : graphs[data[h]][i] = g,
         \A u \in Threads : /\ mine'[u] \subseteq mine[u]
                            /\ \A d \in mine[u] : d[1] # h => d \in mine'[u],
         \A u \in Threads : \A d \in mine'[u] :
            d[1] = h => h \in open' /\ pc'[t] = "destroy_ctx_ref" /\ handle'[t] = h
  PROVE  /\ ObjsOK'
         /\ \A k \in Handles, i \in Gids : data'[k] # NullPtr => EntryOK(k, i)'
         /\ \A u \in Threads \ {t} : CallOK(u)'
         /\ \A u \in Threads : ChangeOK(u)' /\ MineOK(u)'
         /\ \A u, w \in Threads : u # w => Apart(u, w)'
<1>1. Absent \notin Objs
  BY ContextAssumption DEF Objs, Absent
<1>2. ObjsOK'
  <2>1. ASSUME NEW c \in Ctxs, NEW e \in Ctxs, NEW k \in Gids, NEW m \in Gids,
               graphs'[c][k] \in Objs, graphs'[c][k] = graphs'[e][m]
        PROVE  c = e /\ k = m
    <3>1. graphs[c][k] = graphs'[c][k] /\ graphs[e][m] = graphs'[e][m]
      BY <1>1, <2>1
    <3> QED
      BY <2>1, <3>1 DEF CtxInv, ObjsOK
  <2>2. ASSUME NEW o \in Objs, obj'[o] = "none", NEW c \in Ctxs, NEW k \in Gids
        PROVE  graphs'[c][k] # o
    <3>1. graphs[c][k] # o
      BY <2>2 DEF CtxInv, ObjsOK
    <3> QED
      BY <1>1, <3>1
  <2> QED
    BY <2>1, <2>2 DEF ObjsOK
\* What the other handles see.
<1>3. ASSUME NEW k \in Handles \ {h}, data[k] # NullPtr
      PROVE  /\ data'[k] = data[k] /\ data[k] \in Ctxs /\ data[k] # data[h]
             /\ ctx'[data[k]] = ctx[data[k]] /\ graphs'[data[k]] = graphs[data[k]]
  <2>1. data[k] \in Ctxs /\ data[k] # data[h]
    BY <1>3 DEF CtxInv, CtxTypeOK, MapOK
  <2> QED
    BY <1>3, <2>1
<1>4. ASSUME NEW k \in Handles \ {h}, data[k] # NullPtr, NEW i \in Gids,
             graphs[data[k]][i] \in Objs
      PROVE  /\ obj'[graphs[data[k]][i]] = obj[graphs[data[k]][i]]
             /\ job'[graphs[data[k]][i]] = job[graphs[data[k]][i]]
  <2>1. PICK g \in Objs : g = graphs[data[k]][i]
    BY <1>4
  <2>2. ASSUME data[h] # NullPtr, NEW m \in Gids, graphs[data[h]][m] = g PROVE FALSE
    <3>1. data[h] \in Ctxs /\ data[k] \in Ctxs /\ data[k] # data[h]
      BY <1>3, <1>4, <2>2 DEF CtxInv, CtxTypeOK
    <3> QED
      BY <2>1, <2>2, <3>1 DEF CtxInv, ObjsOK
  <2> QED
    BY <2>1, <2>2
<1>5. \A u \in Threads : May[u]' = May[u]
  BY DEF May
<1>6. ASSUME NEW u \in Threads, NEW k, NEW i PROVE Changes(u, k, i)' <=> Changes(u, k, i)
  BY DEF Changes
<1>7. \A w \in Threads : pc[w] = "destroy_ctx_ref" /\ handle[w] # h =>
        pc'[w] = "destroy_ctx_ref" /\ handle'[w] = handle[w]
  OBVIOUS
<1>8. ASSUME NEW k \in Handles, NEW i \in Gids, data'[k] # NullPtr PROVE EntryOK(k, i)'
  <2>1. CASE k = h
    BY <1>8, <2>1 DEF EntryOK
  <2>2. CASE k # h
    <3>1. EntryOK(k, i) /\ data'[k] = data[k] /\ graphs'[data[k]] = graphs[data[k]]
      BY <1>8, <2>2 DEF CtxInv
    <3>2. graphs[data[k]][i] \in Objs => obj'[graphs[data[k]][i]] = obj[graphs[data[k]][i]]
      BY <1>4, <1>8, <2>2, <3>1
    <3>3. \A u \in Threads : Changes(u, k, i) =>
            Changes(u, k, i)' /\ (pc[u] = "erase" => pc'[u] = "erase")
      BY <1>6 DEF Changes
    <3> QED
      BY <1>5, <3>1, <3>2, <3>3 DEF EntryOK
  <2> QED
    BY <2>1, <2>2
<1>9. ASSUME NEW u \in Threads \ {t} PROVE CallOK(u)' /\ ChangeOK(u)'
  <2>1. CallOK(u) /\ ChangeOK(u)
    BY DEF CtxInv
  <2>2. /\ pc'[u] = pc[u] /\ handle'[u] = handle[u] /\ cptr'[u] = cptr[u]
        /\ gid'[u] = gid[u] /\ gptr'[u] = gptr[u]
    OBVIOUS
  <2>3. CASE pc[u] = "idle"
    BY <2>2, <2>3 DEF CallOK, ChangeOK, EntryPcs, OwnLookups, OwnMethods, UnloadPcs, PollPcs
  <2>4. CASE pc[u] # "idle"
    <3>1. /\ handle[u] \in Handles \ {h} /\ cptr[u] = data[handle[u]] /\ data[handle[u]] # NullPtr
      BY <2>4, CallContext
    <3>2. /\ data'[handle[u]] = data[handle[u]] /\ ctx'[cptr[u]] = ctx[cptr[u]]
          /\ Table(u)' = Table(u) /\ (handle[u] \in open' <=> handle[u] \in open)
      BY <1>3, <2>2, <3>1 DEF Table
    <3>3. \A i \in Gids : Table(u)[i] \in Objs =>
             obj'[Table(u)[i]] = obj[Table(u)[i]] /\ job'[Table(u)[i]] = job[Table(u)[i]]
      BY <1>4, <3>1 DEF Table
    <3>4. <<handle[u], gid[u]>> \in mine'[u] <=> <<handle[u], gid[u]>> \in mine[u]
      BY <3>1
    <3>5. ASSUME pc[u] = "force_deinit", NEW i \in Gids, Table(u)[i] # Absent
          PROVE  JobEnded(Table(u)[i])'
      <4>1. PICK o \in Objs : o = Table(u)[i] /\ JobEnded(o)
        BY <2>1, <3>5, DeinitEntry DEF CallOK
      <4>2. JobEnded(o)'
        BY <3>3, <4>1 DEF JobEnded
      <4> QED
        BY <3>2, <4>1, <4>2 DEF JobEnded
    <3>6. CallOK(u)'
      BY <1>5, <2>1, <2>2, <3>2, <3>4, <3>5 DEF CallOK, JobEnded
    <3>7. ASSUME pc[u] = "publish"
          PROVE  obj'[gptr[u]] = "loaded" /\ \A c \in Ctxs, i \in Gids : graphs'[c][i] # gptr[u]
      <4>1. /\ gptr[u] \in Objs /\ obj[gptr[u]] = "loaded"
            /\ \A c \in Ctxs, i \in Gids : graphs[c][i] # gptr[u]
        BY <2>1, <3>7 DEF ChangeOK
      <4>2. ASSUME data[h] # NullPtr, NEW m \in Gids, graphs[data[h]][m] = gptr[u] PROVE FALSE
        BY <4>1, <4>2 DEF CtxInv, CtxTypeOK
      <4> QED
        BY <1>1, <4>1, <4>2
    <3>8. pc[u] = "erase" /\ Table(u)[gid[u]] \in Objs =>
            obj'[Table(u)[gid[u]]] = obj[Table(u)[gid[u]]]
      BY <2>1, <3>3 DEF ChangeOK, EntryPcs
    <3>9. ChangeOK(u)'
      BY <1>5, <2>1, <2>2, <3>2, <3>4, <3>7, <3>8 DEF ChangeOK
    <3> QED
      BY <3>6, <3>9
  <2> QED
    BY <2>3, <2>4
<1>10. ChangeOK(t)'
  BY DEF ChangeOK, EntryPcs
<1>11. ASSUME NEW u \in Threads PROVE MineOK(u)'
  <2> SUFFICES ASSUME NEW d \in mine'[u]
      PROVE /\ d[1] \in open'
            /\ \/ Changes(u, d[1], d[2])'
               \/ \E w \in Threads : pc'[w] = "destroy_ctx_ref" /\ handle'[w] = d[1]
               \/ /\ graphs'[data'[d[1]]][d[2]] \in Objs
                  /\ obj'[graphs'[data'[d[1]]][d[2]]] = "loaded"
    BY DEF MineOK
  <2>1. d \in mine[u] /\ d[1] \in Handles /\ d[2] \in Gids
    BY DEF CtxInv, CtxTypeOK
  <2>2. CASE d[1] = h
    BY <2>2
  <2>3. CASE d[1] # h
    <3>1. /\ d[1] \in open
          /\ \/ Changes(u, d[1], d[2])
             \/ \E w \in Threads : pc[w] = "destroy_ctx_ref" /\ handle[w] = d[1]
             \/ graphs[data[d[1]]][d[2]] \in Objs /\ obj[graphs[data[d[1]]][d[2]]] = "loaded"
      BY <2>1 DEF CtxInv, MineOK
    <3>2. data[d[1]] # NullPtr
      BY <3>1, OpenHandle
    <3>3. /\ d[1] \in open' /\ graphs'[data'[d[1]]] = graphs[data[d[1]]]
          /\ graphs[data[d[1]]][d[2]] \in Objs =>
               obj'[graphs[data[d[1]]][d[2]]] = obj[graphs[data[d[1]]][d[2]]]
      BY <1>3, <1>4, <2>1, <2>3, <3>1, <3>2
    <3> QED
      BY <1>6, <1>7, <2>3, <3>1, <3>3
  <2> QED
    BY <2>2, <2>3
<1>12. /\ \A u, w \in Threads \ {t} : u # w => Apart(u, w)'
       /\ \A u \in Threads \ {t} : Claims(u)' \subseteq Claims(u)
  BY OthersApart
<1>13. ASSUME NEW u \in Threads \ {t} PROVE Apart(t, u)' /\ Apart(u, t)'
  <2>1. Claims(t)' \subseteq Claims(t)
    BY DEF Claims
  <2>2. Claims(t) \cap Claims(u) = {}
    BY DEF CtxInv, Apart
  <2>3. Claims(t)' \cap Claims(u)' = {}
    BY <1>12, <2>1, <2>2
  <2>4. pc'[t] # "publish"
    BY DEF EntryPcs
  <2>5. pc'[t] # "idle" /\ pc'[u] # "idle" => handle'[t] # handle'[u]
    OBVIOUS
  <2>6. \A x \in Threads : pc'[x] \in DeinitPcs \cup {"init"} => pc'[x] # "idle"
    BY DEF DeinitPcs
  <2> QED
    BY <2>3, <2>4, <2>5, <2>6 DEF Apart
<1> QED
  BY <1>2, <1>8, <1>9, <1>10, <1>11, <1>12, <1>13

\* There is a handle for every context: more handles than contexts.
LEMMA FreeHandleExists ==
  ASSUME CtxInv
  PROVE  FreeHandle \in Handles /\ data[FreeHandle] = NullPtr
<1> DEFINE Free == {h \in Handles : data[h] = NullPtr}
<1>1. Free # {}
  <2> SUFFICES ASSUME \A h \in Handles : data[h] # NullPtr PROVE FALSE
    OBVIOUS
  <2>1. data \in [Handles -> Ctxs]
    BY DEF CtxInv, CtxTypeOK
  <2>2. /\ IsFiniteSet(Handles) /\ Cardinality(Handles) = MaxCtx + 1
        /\ IsFiniteSet(Ctxs) /\ Cardinality(Ctxs) = MaxCtx
    BY FS_Interval, ContextAssumption DEF Handles, Ctxs
  <2>3. Cardinality(Ctxs) < Cardinality(Handles)
    BY <2>2, ContextAssumption
  <2>4. \E x, y \in Handles : x # y /\ data[x] = data[y]
    BY <2>1, <2>2, <2>3, FS_PigeonHole
  <2> QED
    BY <2>4 DEF CtxInv, MapOK
<1>2. Free \subseteq Nat
  BY ContextAssumption DEF Handles
<1> QED
  BY <1>1, <1>2, MinIn DEF FreeHandle

\* AIPU_init_ctx: a new context at a handle that nobody has.
LEMMA InitCtxStep ==
  ASSUME CtxInv, NEW t \in Threads, InitCtx(t)
  PROVE  CtxInv'
<1>1. PICK h : h = FreeHandle
  OBVIOUS
<1>2. h \in Handles /\ data[h] = NullPtr
  BY <1>1, FreeHandleExists
<1>3. PICK c \in NewCtxs :
        /\ data' = [data EXCEPT ![h] = c] /\ handle' = [handle EXCEPT ![t] = h]
        /\ ctx' = [ctx EXCEPT ![c] = "made"] /\ cptr' = [cptr EXCEPT ![t] = c]
  BY <1>1 DEF InitCtx
<1>4. /\ pc[t] = "idle" /\ Goto(t, "init")
      /\ UNCHANGED <<setup, fd, graphs, obj, job, gid, gptr, mine, open>>
  BY DEF InitCtx, At
<1>5. c \in Ctxs /\ c # NullPtr /\ ctx[c] = "none"
  <2>1. setup.max_ctx \in 1..MaxCtx
    BY ContextAssumption DEF CtxInv, CtxTypeOK
  <2> QED
    BY <2>1, ContextAssumption DEF NewCtxs, Ctxs, NullPtr
<1>6. /\ pc' \in [Threads -> Pcs] /\ handle' \in [Threads -> Handles]
      /\ cptr' \in [Threads -> {NullPtr} \cup Ctxs] /\ data' \in [Handles -> {NullPtr} \cup Ctxs]
      /\ ctx' \in [Ctxs -> {"none", "made", "live", "deleted"}]
      /\ pc'[t] = "init" /\ handle'[t] = h /\ cptr'[t] = c /\ data'[h] = c /\ ctx'[c] = "made"
      /\ \A u \in Threads \ {t} : pc'[u] = pc[u] /\ handle'[u] = handle[u] /\ cptr'[u] = cptr[u]
      /\ \A k \in Handles \ {h} : data'[k] = data[k]
      /\ \A e \in Ctxs \ {c} : ctx'[e] = ctx[e]
  BY <1>2, <1>3, <1>4, <1>5 DEF Goto, CtxInv, CtxTypeOK, Pcs
<1>7. CtxTypeOK'
  BY <1>4, <1>6 DEF CtxInv, CtxTypeOK
<1>8. h \notin open
  BY <1>2 DEF CtxInv, MapOK
<1>9. ASSUME NEW k \in Handles, data[k] # NullPtr PROVE data[k] # c /\ data[k] \in Ctxs /\ k # h
  BY <1>2, <1>5, <1>9 DEF CtxInv, CtxTypeOK, MapOK
<1>10. \A i \in Gids : graphs[c][i] = Absent
  BY <1>5 DEF CtxInv, MapOK
<1>11. MapOK'
  <2>1. ASSUME NEW k \in Handles, data'[k] # NullPtr PROVE ctx'[data'[k]] \in {"made", "live"}
    <3>1. CASE k = h
      BY <1>6, <3>1
    <3>2. CASE k # h
      <4>1. data[k] # c /\ data[k] \in Ctxs /\ ctx[data[k]] \in {"made", "live"}
        BY <1>6, <1>9, <2>1, <3>2 DEF CtxInv, MapOK
      <4> QED
        BY <1>6, <3>2, <4>1
    <3> QED
      BY <3>1, <3>2
  <2>2. ASSUME NEW k \in Handles, NEW m \in Handles, data'[k] # NullPtr, data'[k] = data'[m]
        PROVE  k = m
    <3>1. data[k] # NullPtr /\ data[k] = data[m] => k = m
      BY DEF CtxInv, MapOK
    <3> QED
      BY <1>6, <1>9, <2>2, <3>1
  <2>3. ASSUME NEW k \in open PROVE data'[k] # NullPtr /\ ctx'[data'[k]] = "live"
    <3>1. k \in Handles /\ data[k] # NullPtr /\ ctx[data[k]] = "live"
      BY DEF CtxInv, CtxTypeOK, MapOK
    <3> QED
      BY <1>6, <1>9, <3>1
  <2>4. ASSUME NEW e \in Ctxs, ctx'[e] # "live", NEW i \in Gids PROVE graphs[e][i] = Absent
    <3>1. ctx[e] # "live"
      BY <1>5, <1>6, <2>4
    <3> QED
      BY <3>1 DEF CtxInv, MapOK
  <2> QED
    BY <1>4, <2>1, <2>2, <2>3, <2>4 DEF MapOK
<1>12. CallOK(t)'
  BY <1>4, <1>5, <1>6, <1>8 DEF CallOK, OwnLookups, OwnMethods, UnloadPcs, PollPcs
<1>13. /\ ObjsOK'
       /\ \A k \in Handles, i \in Gids : data'[k] # NullPtr => EntryOK(k, i)'
       /\ \A u \in Threads \ {t} : CallOK(u)'
       /\ \A u \in Threads : ChangeOK(u)' /\ MineOK(u)'
       /\ \A u, w \in Threads : u # w => Apart(u, w)'
  <2>1. \A u \in Threads \ {t} : pc[u] # "idle" => handle[u] # h
    BY <1>2, CallContext
  <2>2. pc[t] \notin EntryPcs /\ pc'[t] \notin EntryPcs
    BY <1>4, <1>6 DEF EntryPcs
  <2>3. \A k \in Handles \ {h} : /\ data'[k] = data[k] /\ (k \in open' <=> k \in open)
                                 /\ data[k] # NullPtr => /\ ctx'[data[k]] = ctx[data[k]]
                                                         /\ graphs'[data[k]] = graphs[data[k]]
    BY <1>4, <1>6, <1>9
  <2>4. \A i \in Gids : graphs'[data'[h]][i] = Absent
    BY <1>4, <1>6, <1>10
  <2>5. \A u \in Threads : \A d \in mine'[u] : d[1] # h
    BY <1>4, <1>8 DEF CtxInv, MineOK
  <2>6. \A e \in Ctxs, i \in Gids : graphs'[e][i] \in {graphs[e][i], Absent}
    BY <1>4
  <2>7. /\ \A g \in Objs : obj'[g] = obj[g] /\ job'[g] = job[g]
        /\ \A u \in Threads : gid'[u] = gid[u] /\ gptr'[u] = gptr[u] /\ mine'[u] = mine[u]
        /\ setup' = setup
    BY <1>4
  <2> QED
    BY <1>2, <1>4, <1>6, <2>1, <2>2, <2>3, <2>4, <2>5, <2>6, <2>7, OtherContexts
<1> QED
  BY <1>7, <1>11, <1>12, <1>13 DEF CtxInv

\* What t, which is making its context or giving it up, knows of it: it is alone.
LEMMA AloneInContext ==
  ASSUME CtxInv, NEW t \in Threads, pc[t] \in DeinitPcs \cup {"init"}
  PROVE  /\ handle[t] \in Handles /\ cptr[t] \in Ctxs /\ cptr[t] = data[handle[t]]
         /\ cptr[t] # NullPtr
         /\ \A u \in Threads \ {t} : pc[u] # "idle" => handle[u] # handle[t]
         /\ \A k \in Handles : data[k] # NullPtr /\ k # handle[t] =>
              data[k] # cptr[t] /\ data[k] \in Ctxs
         /\ pc[t] = "init" => /\ handle[t] \notin open /\ ctx[cptr[t]] = "made"
                              /\ \A u \in Threads : \A d \in mine[u] : d[1] # handle[t]
         /\ pc[t] # "init" => handle[t] \in open
<1>1. pc[t] # "idle" /\ CallOK(t)
  BY DEF DeinitPcs, CtxInv
<1>2. /\ handle[t] \in Handles /\ cptr[t] \in Ctxs /\ cptr[t] = data[handle[t]]
      /\ cptr[t] # NullPtr
  BY <1>1, CallContext
<1>3. ASSUME NEW u \in Threads \ {t}, pc[u] # "idle" PROVE handle[u] # handle[t]
  BY <1>3 DEF CtxInv, Apart
<1>4. ASSUME NEW k \in Handles, data[k] # NullPtr, k # handle[t]
      PROVE  data[k] # cptr[t] /\ data[k] \in Ctxs
  <2>1. data[k] = data[handle[t]] => k = handle[t]
    BY <1>2, <1>4 DEF CtxInv, MapOK
  <2> QED
    BY <1>2, <1>4, <2>1 DEF CtxInv, CtxTypeOK
<1>5. pc[t] = "init" => handle[t] \notin open /\ ctx[cptr[t]] = "made"
  BY <1>1 DEF CallOK
<1>6. pc[t] # "init" => handle[t] \in open
  BY <1>1 DEF CallOK
<1>7. \A u \in Threads : \A d \in mine[u] : d[1] \in open
  BY DEF CtxInv, MineOK
<1> QED
  BY <1>2, <1>3, <1>4, <1>5, <1>6, <1>7

\* The device is open, and the application has the handle.
LEMMA OpenDeviceStep ==
  ASSUME CtxInv, NEW t \in Threads, NEW outcome \in {"open", "garbage"}, OpenDevice(t, outcome)
  PROVE  CtxInv'
<1>1. /\ pc[t] = "init" /\ Return(t) /\ open' = open \cup {handle[t]}
      /\ fd' = [fd EXCEPT ![cptr[t]] = outcome] /\ ctx' = [ctx EXCEPT ![cptr[t]] = "live"]
      /\ UNCHANGED <<setup, data, graphs, obj, job, handle, gid, mine>>
  BY DEF OpenDevice, At
<1>2. PICK h \in Handles, c \in Ctxs : h = handle[t] /\ c = cptr[t]
  BY <1>1, AloneInContext
<1>3. /\ c = data[h] /\ c # NullPtr /\ h \notin open /\ ctx[c] = "made"
      /\ \A u \in Threads \ {t} : pc[u] # "idle" => handle[u] # h
      /\ \A k \in Handles : data[k] # NullPtr /\ k # h => data[k] # c /\ data[k] \in Ctxs
      /\ \A u \in Threads : \A d \in mine[u] : d[1] # h
  BY <1>1, <1>2, AloneInContext
<1>4. /\ pc' \in [Threads -> Pcs] /\ cptr' \in [Threads -> {NullPtr} \cup Ctxs]
      /\ gptr' \in [Threads -> {NullPtr} \cup Objs] /\ pc'[t] = "idle"
      /\ \A u \in Threads \ {t} : pc'[u] = pc[u] /\ cptr'[u] = cptr[u] /\ gptr'[u] = gptr[u]
  BY <1>1 DEF Return, Goto, CtxInv, CtxTypeOK, Pcs
<1>5. /\ ctx' \in [Ctxs -> {"none", "made", "live", "deleted"}] /\ ctx'[c] = "live"
      /\ \A e \in Ctxs \ {c} : ctx'[e] = ctx[e]
      /\ fd' \in [Ctxs -> {"none", "open", "garbage", "closed"}]
  BY <1>1, <1>2 DEF CtxInv, CtxTypeOK
<1>6. CtxTypeOK'
  BY <1>1, <1>2, <1>4, <1>5 DEF CtxInv, CtxTypeOK
<1>7. \A i \in Gids : graphs[c][i] = Absent
  BY <1>3 DEF CtxInv, MapOK
<1>8. MapOK'
  <2>1. ASSUME NEW k \in Handles, data[k] # NullPtr PROVE ctx'[data[k]] \in {"made", "live"}
    <3>1. ctx[data[k]] \in {"made", "live"} /\ (k = h \/ data[k] \in Ctxs \ {c})
      BY <1>3, <2>1 DEF CtxInv, MapOK
    <3> QED
      BY <1>3, <1>5, <3>1
  <2>2. \A k, m \in Handles : data[k] # NullPtr /\ data[k] = data[m] => k = m
    BY DEF CtxInv, MapOK
  <2>3. ASSUME NEW k \in open' PROVE data[k] # NullPtr /\ ctx'[data[k]] = "live"
    <3>1. CASE k = h
      BY <1>3, <1>5, <3>1
    <3>2. CASE k # h
      <4>1. k \in open /\ k \in Handles /\ data[k] # NullPtr /\ ctx[data[k]] = "live"
        BY <1>1, <1>2, <3>2 DEF CtxInv, CtxTypeOK, MapOK
      <4> QED
        BY <1>3, <1>5, <3>2, <4>1
    <3> QED
      BY <3>1, <3>2
  <2>4. ASSUME NEW e \in Ctxs, ctx'[e] # "live", NEW i \in Gids PROVE graphs[e][i] = Absent
    <3>1. ctx[e] # "live"
      BY <1>5, <2>4
    <3> QED
      BY <3>1 DEF CtxInv, MapOK
  <2> QED
    BY <1>1, <2>1, <2>2, <2>3, <2>4 DEF MapOK
<1>9. CallOK(t)'
  BY <1>4 DEF CallOK, OwnLookups, OwnMethods, UnloadPcs, PollPcs
<1>10. /\ ObjsOK'
       /\ \A k \in Handles, i \in Gids : data'[k] # NullPtr => EntryOK(k, i)'
       /\ \A u \in Threads \ {t} : CallOK(u)'
       /\ \A u \in Threads : ChangeOK(u)' /\ MineOK(u)'
       /\ \A u, w \in Threads : u # w => Apart(u, w)'
  <2>1. pc[t] \notin EntryPcs /\ pc'[t] \notin EntryPcs
    BY <1>1, <1>4 DEF EntryPcs
  <2>2. \A k \in Handles \ {h} : /\ data'[k] = data[k] /\ (k \in open' <=> k \in open)
                                 /\ data[k] # NullPtr => /\ ctx'[data[k]] = ctx[data[k]]
                                                         /\ graphs'[data[k]] = graphs[data[k]]
    BY <1>1, <1>2, <1>3, <1>5
  <2>3. /\ \A i \in Gids : graphs'[data'[h]][i] = Absent
        /\ \A e \in Ctxs, i \in Gids : graphs'[e][i] \in {graphs[e][i], Absent}
    BY <1>1, <1>3, <1>7
  <2>4. /\ \A g \in Objs : obj'[g] = obj[g] /\ job'[g] = job[g]
        /\ \A u \in Threads : gid'[u] = gid[u] /\ handle'[u] = handle[u] /\ mine'[u] = mine[u]
        /\ setup' = setup
    BY <1>1
  <2> QED
    BY <1>1, <1>2, <1>3, <1>4, <2>1, <2>2, <2>3, <2>4, OtherContexts
<1> QED
  BY <1>6, <1>8, <1>9, <1>10 DEF CtxInv

\* The handle is free again: no context that lives is at it.
LEMMA MapWithout ==
  ASSUME CtxInv, NEW h \in Handles, NEW c \in Ctxs, data[h] = c, c # NullPtr,
         data' = [data EXCEPT ![h] = NullPtr], ctx' = [ctx EXCEPT ![c] = "deleted"],
         graphs' = graphs, open' = open \ {h}, \A i \in Gids : graphs[c][i] = Absent
  PROVE  /\ MapOK'
         /\ data' \in [Handles -> {NullPtr} \cup Ctxs]
         /\ ctx' \in [Ctxs -> {"none", "made", "live", "deleted"}]
         /\ data'[h] = NullPtr
         /\ \A k \in Handles \ {h} : /\ data'[k] = data[k]
                                     /\ data[k] # NullPtr => ctx'[data[k]] = ctx[data[k]]
<1>1. /\ data' \in [Handles -> {NullPtr} \cup Ctxs] /\ data'[h] = NullPtr
      /\ ctx' \in [Ctxs -> {"none", "made", "live", "deleted"}]
      /\ \A k \in Handles \ {h} : data'[k] = data[k]
      /\ \A e \in Ctxs \ {c} : ctx'[e] = ctx[e]
  BY DEF CtxInv, CtxTypeOK
<1>2. ASSUME NEW k \in Handles \ {h}, data[k] # NullPtr PROVE data[k] \in Ctxs \ {c}
  BY <1>2 DEF CtxInv, CtxTypeOK, MapOK
<1>3. ASSUME NEW k \in Handles, data'[k] # NullPtr
      PROVE  k # h /\ data'[k] = data[k] /\ ctx'[data'[k]] = ctx[data[k]]
  BY <1>1, <1>2, <1>3
<1>4. \A k \in Handles : data'[k] # NullPtr => ctx'[data'[k]] \in {"made", "live"}
  BY <1>3 DEF CtxInv, MapOK
<1>5. \A k, m \in Handles : data'[k] # NullPtr /\ data'[k] = data'[m] => k = m
  <2>1. \A k, m \in Handles : data[k] # NullPtr /\ data[k] = data[m] => k = m
    BY DEF CtxInv, MapOK
  <2> QED
    BY <1>3, <2>1
<1>6. ASSUME NEW k \in open' PROVE data'[k] # NullPtr /\ ctx'[data'[k]] = "live"
  <2>1. k \in Handles \ {h} /\ data[k] # NullPtr /\ ctx[data[k]] = "live"
    BY DEF CtxInv, CtxTypeOK, MapOK
  <2> QED
    BY <1>1, <1>2, <2>1
<1>7. ASSUME NEW e \in Ctxs, ctx'[e] # "live", NEW i \in Gids PROVE graphs'[e][i] = Absent
  <2>1. e # c => ctx[e] # "live"
    BY <1>1, <1>7
  <2> QED
    BY <2>1 DEF CtxInv, MapOK
<1> QED
  BY <1>1, <1>2, <1>4, <1>5, <1>6, <1>7 DEF MapOK

\* The device refused: the context is deleted, and nobody has had the handle.
LEMMA InitRefusedStep ==
  ASSUME CtxInv, NEW t \in Threads, InitRefused(t)
  PROVE  CtxInv'
<1>1. /\ pc[t] = "init" /\ Return(t)
      /\ data' = [data EXCEPT ![handle[t]] = NullPtr]
      /\ ctx' = [ctx EXCEPT ![cptr[t]] = "deleted"]
      /\ UNCHANGED <<setup, fd, graphs, obj, job, handle, gid, mine, open>>
  BY DEF InitRefused, At
<1>2. PICK h \in Handles, c \in Ctxs : h = handle[t] /\ c = cptr[t]
  BY <1>1, AloneInContext
<1>3. /\ c = data[h] /\ c # NullPtr /\ h \notin open /\ ctx[c] = "made"
      /\ \A u \in Threads \ {t} : pc[u] # "idle" => handle[u] # h
      /\ \A u \in Threads : \A d \in mine[u] : d[1] # h
  BY <1>1, <1>2, AloneInContext
<1>4. \A i \in Gids : graphs[c][i] = Absent
  BY <1>3 DEF CtxInv, MapOK
<1>5. /\ pc' \in [Threads -> Pcs] /\ cptr' \in [Threads -> {NullPtr} \cup Ctxs]
      /\ gptr' \in [Threads -> {NullPtr} \cup Objs] /\ pc'[t] = "idle"
      /\ \A u \in Threads \ {t} : pc'[u] = pc[u] /\ cptr'[u] = cptr[u] /\ gptr'[u] = gptr[u]
  BY <1>1 DEF Return, Goto, CtxInv, CtxTypeOK, Pcs
<1>6. /\ MapOK' /\ data' \in [Handles -> {NullPtr} \cup Ctxs]
      /\ ctx' \in [Ctxs -> {"none", "made", "live", "deleted"}] /\ data'[h] = NullPtr
      /\ \A k \in Handles \ {h} : /\ data'[k] = data[k]
                                  /\ data[k] # NullPtr => ctx'[data[k]] = ctx[data[k]]
  <2>1. open' = open \ {h} /\ graphs' = graphs
    BY <1>1, <1>3
  <2> QED
    BY <1>1, <1>2, <1>3, <1>4, <2>1, MapWithout
<1>7. CtxTypeOK'
  BY <1>1, <1>5, <1>6 DEF CtxInv, CtxTypeOK
<1>8. CallOK(t)'
  BY <1>5 DEF CallOK, OwnLookups, OwnMethods, UnloadPcs, PollPcs
<1>9. /\ ObjsOK'
      /\ \A k \in Handles, i \in Gids : data'[k] # NullPtr => EntryOK(k, i)'
      /\ \A u \in Threads \ {t} : CallOK(u)'
      /\ \A u \in Threads : ChangeOK(u)' /\ MineOK(u)'
      /\ \A u, w \in Threads : u # w => Apart(u, w)'
  <2>1. pc[t] \notin EntryPcs /\ pc'[t] \notin EntryPcs
    BY <1>1, <1>5 DEF EntryPcs
  <2>2. \A k \in Handles \ {h} : /\ data'[k] = data[k] /\ (k \in open' <=> k \in open)
                                 /\ data[k] # NullPtr => /\ ctx'[data[k]] = ctx[data[k]]
                                                         /\ graphs'[data[k]] = graphs[data[k]]
    BY <1>1, <1>6
  <2>3. \A e \in Ctxs, i \in Gids : graphs'[e][i] \in {graphs[e][i], Absent}
    BY <1>1
  <2>4. /\ \A g \in Objs : obj'[g] = obj[g] /\ job'[g] = job[g]
        /\ \A u \in Threads : gid'[u] = gid[u] /\ handle'[u] = handle[u] /\ mine'[u] = mine[u]
        /\ setup' = setup
    BY <1>1
  <2> QED
    BY <1>1, <1>2, <1>3, <1>5, <1>6, <2>1, <2>2, <2>3, <2>4, OtherContexts
<1> QED
  BY <1>6, <1>7, <1>8, <1>9 DEF CtxInv

\* force_deinit clears the table and closes the device.
LEMMA ForceDeinitStep ==
  ASSUME CtxInv, NEW t \in Threads, ForceDeinit(t)
  PROVE  CtxInv'
<1> DEFINE All == {Table(t)[i] : i \in {k \in Gids : Table(t)[k] # Absent}}
<1>1. /\ pc[t] = "force_deinit" /\ Goto(t, "destroy_ctx_ref")
      /\ obj' = [g \in Objs |-> IF g \in All /\ JobEnded(g) THEN "unloaded" ELSE obj[g]]
      /\ job' = [g \in Objs |-> IF g \in All /\ JobEnded(g) THEN "none" ELSE job[g]]
      /\ graphs' = [graphs EXCEPT ![cptr[t]] = [i \in Gids |-> Absent]]
      /\ fd' = [fd EXCEPT ![cptr[t]] = "closed"]
      /\ UNCHANGED <<setup, data, ctx, handle, cptr, gid, gptr, mine, open>>
  BY DEF ForceDeinit, At
<1>2. PICK h \in Handles, c \in Ctxs : h = handle[t] /\ c = cptr[t]
  BY <1>1, AloneInContext DEF DeinitPcs
<1>3. /\ c = data[h] /\ c # NullPtr /\ h \in open
      /\ \A u \in Threads \ {t} : pc[u] # "idle" => handle[u] # h
      /\ \A k \in Handles : data[k] # NullPtr /\ k # h => data[k] # c /\ data[k] \in Ctxs
  BY <1>1, <1>2, AloneInContext DEF DeinitPcs
<1>4. /\ graphs' \in [Ctxs -> [Gids -> {Absent, NullPtr} \cup Objs]]
      /\ \A i \in Gids : graphs'[c][i] = Absent
      /\ \A e \in Ctxs \ {c} : graphs'[e] = graphs[e]
      /\ fd' \in [Ctxs -> {"none", "open", "garbage", "closed"}]
  BY <1>1, <1>2 DEF CtxInv, CtxTypeOK
<1>5. /\ obj' \in [Objs -> {"none", "loaded", "unloaded", "deleted"}]
      /\ job' \in [Objs -> JobStates]
      /\ \A g \in Objs : obj'[g] = "none" => obj[g] = "none"
      /\ \A g \in Objs : g \notin All => obj'[g] = obj[g] /\ job'[g] = job[g]
  BY <1>1 DEF CtxInv, CtxTypeOK, JobStates
<1>6. /\ pc' \in [Threads -> Pcs] /\ pc'[t] = "destroy_ctx_ref"
      /\ \A u \in Threads \ {t} : pc'[u] = pc[u]
  BY <1>1 DEF Goto, CtxInv, CtxTypeOK, Pcs, DeinitPcs
<1>7. CtxTypeOK'
  BY <1>1, <1>4, <1>5, <1>6 DEF CtxInv, CtxTypeOK
<1>8. MapOK'
  <2>1. ASSUME NEW e \in Ctxs, ctx[e] # "live", NEW i \in Gids PROVE graphs'[e][i] = Absent
    BY <1>4, <2>1 DEF CtxInv, MapOK
  <2>2. /\ \A k \in Handles : data[k] # NullPtr => ctx[data[k]] \in {"made", "live"}
        /\ \A k, m \in Handles : data[k] # NullPtr /\ data[k] = data[m] => k = m
        /\ \A k \in open : data[k] # NullPtr /\ ctx[data[k]] = "live"
    BY DEF CtxInv, MapOK
  <2> QED
    BY <1>1, <2>1, <2>2 DEF MapOK
<1>9. CallOK(t)'
  <2>1. /\ cptr'[t] = c /\ handle'[t] = h /\ data'[h] = c /\ h \in open'
        /\ \A i \in Gids : Table(t)'[i] = Absent
    BY <1>1, <1>2, <1>3, <1>4 DEF Table
  <2> QED
    BY <1>3, <1>6, <2>1 DEF CallOK, OwnLookups, OwnMethods, UnloadPcs, PollPcs
<1>10. /\ ObjsOK'
       /\ \A k \in Handles, i \in Gids : data'[k] # NullPtr => EntryOK(k, i)'
       /\ \A u \in Threads \ {t} : CallOK(u)'
       /\ \A u \in Threads : ChangeOK(u)' /\ MineOK(u)'
       /\ \A u, w \in Threads : u # w => Apart(u, w)'
  <2>1. pc[t] \notin EntryPcs /\ pc'[t] \notin EntryPcs
    BY <1>1, <1>6 DEF EntryPcs
  <2>2. \A k \in Handles \ {h} : /\ data'[k] = data[k] /\ (k \in open' <=> k \in open)
                                 /\ data[k] # NullPtr => /\ ctx'[data[k]] = ctx[data[k]]
                                                         /\ graphs'[data[k]] = graphs[data[k]]
    BY <1>1, <1>3, <1>4
  <2>3. \A e \in Ctxs, i \in Gids : graphs'[e][i] \in {graphs[e][i], Absent}
    BY <1>4
  <2>4. \A g \in Objs : \/ obj'[g] = obj[g] /\ job'[g] = job[g]
                        \/ data[h] # NullPtr /\ \E i \in Gids : graphs[data[h]][i] = g
    <3>1. \A g \in All : \E i \in Gids : graphs[data[h]][i] = g
      BY <1>2, <1>3 DEF Table
    <3> QED
      BY <1>3, <1>5, <3>1
  <2>5. /\ \A u \in Threads : /\ gid'[u] = gid[u] /\ handle'[u] = handle[u] /\ mine'[u] = mine[u]
                              /\ cptr'[u] = cptr[u] /\ gptr'[u] = gptr[u]
        /\ setup' = setup /\ h \in open' /\ handle'[t] = h
    BY <1>1, <1>2, <1>3
  <2>6. data'[h] # NullPtr => \A i \in Gids : graphs'[data'[h]][i] = Absent
    BY <1>1, <1>3, <1>4
  <2> QED
    BY <1>2, <1>3, <1>5, <1>6, <2>1, <2>2, <2>3, <2>4, <2>5, <2>6, OtherContexts
<1> QED
  BY <1>7, <1>8, <1>9, <1>10 DEF CtxInv

\* destroy_ctx_ref: the context is out of the map, and the application forgets the
\* handle and its graphs.
LEMMA DestroyCtxRefStep ==
  ASSUME CtxInv, NEW t \in Threads, DestroyCtxRef(t)
  PROVE  CtxInv'
<1>1. /\ pc[t] = "destroy_ctx_ref" /\ Return(t)
      /\ data' = [data EXCEPT ![handle[t]] = NullPtr]
      /\ ctx' = [ctx EXCEPT ![data[handle[t]]] = "deleted"]
      /\ open' = open \ {handle[t]}
      /\ mine' = [u \in Threads |-> {d \in mine[u] : d[1] # handle[t]}]
      /\ UNCHANGED <<setup, fd, graphs, obj, job, handle, gid>>
  BY DEF DestroyCtxRef, At
<1>2. PICK h \in Handles, c \in Ctxs : h = handle[t] /\ c = cptr[t]
  BY <1>1, AloneInContext DEF DeinitPcs
<1>3. /\ c = data[h] /\ c # NullPtr
      /\ \A u \in Threads \ {t} : pc[u] # "idle" => handle[u] # h
  BY <1>1, <1>2, AloneInContext DEF DeinitPcs
<1>4. \A i \in Gids : graphs[c][i] = Absent
  BY <1>1, <1>2 DEF CtxInv, CallOK, Table
<1>5. /\ pc' \in [Threads -> Pcs] /\ cptr' \in [Threads -> {NullPtr} \cup Ctxs]
      /\ gptr' \in [Threads -> {NullPtr} \cup Objs] /\ pc'[t] = "idle"
      /\ \A u \in Threads \ {t} : pc'[u] = pc[u] /\ cptr'[u] = cptr[u] /\ gptr'[u] = gptr[u]
  BY <1>1 DEF Return, Goto, CtxInv, CtxTypeOK, Pcs
<1>6. /\ MapOK' /\ data' \in [Handles -> {NullPtr} \cup Ctxs]
      /\ ctx' \in [Ctxs -> {"none", "made", "live", "deleted"}] /\ data'[h] = NullPtr
      /\ \A k \in Handles \ {h} : /\ data'[k] = data[k]
                                  /\ data[k] # NullPtr => ctx'[data[k]] = ctx[data[k]]
  <2>1. graphs' = graphs /\ open' = open \ {h}
    BY <1>1, <1>2
  <2>2. data' = [data EXCEPT ![h] = NullPtr] /\ ctx' = [ctx EXCEPT ![c] = "deleted"]
    BY <1>1, <1>2, <1>3
  <2> QED
    BY <1>3, <1>4, <2>1, <2>2, MapWithout
<1>7. /\ mine' \in [Threads -> SUBSET (Handles \X Gids)]
      /\ \A u \in Threads : /\ mine'[u] \subseteq mine[u]
                            /\ \A d \in mine[u] : d[1] # h => d \in mine'[u]
                            /\ \A d \in mine'[u] : d[1] # h
  BY <1>1, <1>2 DEF CtxInv, CtxTypeOK
<1>8. CtxTypeOK'
  BY <1>1, <1>5, <1>6, <1>7 DEF CtxInv, CtxTypeOK
<1>9. CallOK(t)'
  BY <1>5 DEF CallOK, OwnLookups, OwnMethods, UnloadPcs, PollPcs
<1>10. /\ ObjsOK'
       /\ \A k \in Handles, i \in Gids : data'[k] # NullPtr => EntryOK(k, i)'
       /\ \A u \in Threads \ {t} : CallOK(u)'
       /\ \A u \in Threads : ChangeOK(u)' /\ MineOK(u)'
       /\ \A u, w \in Threads : u # w => Apart(u, w)'
  <2>1. pc[t] \notin EntryPcs /\ pc'[t] \notin EntryPcs
    BY <1>1, <1>5 DEF EntryPcs
  <2>2. \A k \in Handles \ {h} : /\ data'[k] = data[k] /\ (k \in open' <=> k \in open)
                                 /\ data[k] # NullPtr => /\ ctx'[data[k]] = ctx[data[k]]
                                                         /\ graphs'[data[k]] = graphs[data[k]]
    BY <1>1, <1>2, <1>6
  <2>3. \A e \in Ctxs, i \in Gids : graphs'[e][i] \in {graphs[e][i], Absent}
    BY <1>1
  <2>4. /\ \A g \in Objs : obj'[g] = obj[g] /\ job'[g] = job[g]
        /\ \A u \in Threads : gid'[u] = gid[u] /\ handle'[u] = handle[u]
        /\ setup' = setup
    BY <1>1
  <2>5. \A u \in Threads : \A d \in mine'[u] :
          d[1] = h => h \in open' /\ pc'[t] = "destroy_ctx_ref" /\ handle'[t] = h
    BY <1>7
  <2>6. /\ pc[t] # "idle" => handle[t] = h
        /\ data'[h] # NullPtr => \A i \in Gids : graphs'[data'[h]][i] = Absent
        /\ pc'[t] # "idle" => handle'[t] = h
    BY <1>2, <1>5, <1>6
  <2>7. \A u \in Threads \ {t} :
          pc'[u] = pc[u] /\ handle'[u] = handle[u] /\ cptr'[u] = cptr[u]
            /\ gid'[u] = gid[u] /\ gptr'[u] = gptr[u]
    BY <1>5, <2>4
  <2> QED
    BY <1>3, <1>7, <2>1, <2>2, <2>3, <2>4, <2>5, <2>6, <2>7, OtherContexts, SMTT(30)
<1> QED
  BY <1>6, <1>8, <1>9, <1>10 DEF CtxInv

-----------------------------------------------------------------------------
(* The invariant is inductive.                                             *)

\* The process starts with an empty map and no thread in a call.
LEMMA InitInv == Init => CtxInv
<1> SUFFICES ASSUME Init PROVE CtxInv
  OBVIOUS
<1>1. Absent \notin Objs /\ Absent # NullPtr /\ NullPtr \notin Ctxs
  BY ContextAssumption DEF Objs, Ctxs, Absent, NullPtr
<1>2. 0 \in Handles
  BY ContextAssumption DEF Handles
<1>3. CtxTypeOK
  BY <1>2 DEF Init, CtxTypeOK, Pcs, JobStates
<1>4. MapOK /\ ObjsOK
  BY <1>1 DEF Init, MapOK, ObjsOK
<1>5. \A h \in Handles, i \in Gids : data[h] # NullPtr => EntryOK(h, i)
  BY DEF Init
<1>6. \A t \in Threads : pc[t] = "idle" /\ mine[t] = {}
  BY DEF Init
<1>7. \A t \in Threads : CallOK(t) /\ ChangeOK(t) /\ MineOK(t)
  BY <1>6 DEF CallOK, ChangeOK, MineOK, OwnLookups, OwnMethods, UnloadPcs, PollPcs, EntryPcs
<1>8. \A t, u \in Threads : t # u => Apart(t, u)
  BY <1>6 DEF Apart, Claims, EntryPcs, DeinitPcs
<1> QED
  BY <1>3, <1>4, <1>5, <1>7, <1>8 DEF CtxInv

\* The life of a context: init, is_deinit_ok, force_deinit, destroy_ctx_ref.
LEMMA ContextStepInv ==
  ASSUME CtxInv, NEW t \in Threads, ContextStep(t)
  PROVE  CtxInv'
<1>1. CASE InitCtx(t)
  BY <1>1, InitCtxStep
<1>2. CASE InitOk(t) \/ InitNoDevice(t)
  BY <1>2, OpenDeviceStep DEF InitOk, InitNoDevice
<1>3. CASE InitRefused(t)
  BY <1>3, InitRefusedStep
<1>4. CASE DeinitCtx(t)
  BY <1>4, CallStep DEF DeinitCtx
<1>5. CASE IsDeinitOk(t)
  BY <1>5, IsDeinitOkStep
<1>6. CASE ForceDeinit(t)
  BY <1>6, ForceDeinitStep
<1>7. CASE DestroyCtxRef(t)
  BY <1>7, DestroyCtxRefStep
<1> QED
  BY <1>1, <1>2, <1>3, <1>4, <1>5, <1>6, <1>7 DEF ContextStep

\* load_graph and unload_graph; only the erase has to know that nobody polls.
LEMMA TableStepInv ==
  ASSUME PollApart, CtxInv, NEW t \in Threads, TableStep(t)
  PROVE  CtxInv'
<1>1. CASE LoadGraph(t)
  BY <1>1, CallStep DEF LoadGraph
<1>2. CASE LoadInvalid(t)
  BY <1>2, LoadInvalidStep
<1>3. CASE LoadReserve(t)
  BY <1>3, LoadReserveStep
<1>4. CASE CreateGraphObject(t)
  BY <1>4, CreateGraphObjectStep
<1>5. CASE CreateGraphObjectFails(t)
  BY <1>5, CreateFailsStep
<1>6. CASE LoadPublish(t)
  BY <1>6, LoadPublishStep
<1>7. CASE EraseEntry(t)
  BY <1>7, EraseEntryStep
<1>8. CASE UnloadGraph(t)
  BY <1>8, CallGraphStep DEF UnloadGraph, OwnLookups
<1>9. CASE UnloadLookup(t)
  <2>1. "unload_graph" \in OwnLookups /\ "destroy_graph_object" \in OwnMethods
    BY DEF OwnLookups, OwnMethods
  <2> QED
    BY <1>9, <2>1, LookupStep DEF UnloadLookup
<1>10. CASE DestroyGraphObject(t)
  BY <1>10, DestroyGraphObjectStep
<1> QED
  BY <1>1, <1>2, <1>3, <1>4, <1>5, <1>6, <1>7, <1>8, <1>9, <1>10 DEF TableStep

\* A function about one of the thread's graphs, from its call to the method.
LEMMA OwnCall ==
  ASSUME CtxInv, NEW t \in Threads, NEW op \in OwnLookups \ {"unload_graph"},
         NEW where \in OwnMethods \ {"destroy_graph_object"}, NEW from,
         NEW to \in JobStates,
         CallGraph(t, op) \/ GetGraphObject(t, op, where) \/ GraphMethod(t, where, from, to)
  PROVE  CtxInv'
<1>1. CASE CallGraph(t, op)
  BY <1>1, CallGraphStep
<1>2. CASE GetGraphObject(t, op, where)
  BY <1>2, LookupStep
<1>3. CASE GraphMethod(t, where, from, to)
  BY <1>3, MethodStep
<1> QED
  BY <1>1, <1>2, <1>3

\* The functions about a graph.
LEMMA GraphStepInv ==
  ASSUME CtxInv, NEW t \in Threads, GraphStep(t)
  PROVE  CtxInv'
<1>0. /\ {"create_job", "flush_job", "get_job_status", "clean_job", "alloc_tensor_buffers",
          "free_tensor_buffers", "set_dump_options", "get_debug_info"}
           \subseteq OwnLookups \ {"unload_graph"}
      /\ {"build_new_job", "Graph::flush_job", "Graph::wait", "Graph::clean_job",
          "Graph::buffers", "Graph::job_info"} \subseteq OwnMethods \ {"destroy_graph_object"}
  BY DEF OwnLookups, OwnMethods
<1>1. CASE CreateJob(t) \/ CreateNewJob(t) \/ BuildNewJob(t) \/ BuildRefused(t)
  BY <1>0, <1>1, OwnCall DEF CreateJob, CreateNewJob, BuildNewJob, BuildRefused, JobStates
<1>2. CASE FlushJob(t) \/ CtxFlushJob(t) \/ GraphFlushJob(t)
  BY <1>0, <1>2, OwnCall DEF FlushJob, CtxFlushJob, GraphFlushJob, JobStates
<1>3. CASE GetJobStatus(t) \/ WaitForJobEnd(t) \/ GraphWait(t)
  BY <1>0, <1>3, OwnCall DEF GetJobStatus, WaitForJobEnd, GraphWait, JobStates
<1>4. CASE CleanJob(t) \/ CtxCleanJob(t) \/ GraphCleanJob(t)
  BY <1>0, <1>4, OwnCall DEF CleanJob, CtxCleanJob, GraphCleanJob, JobStates
<1>5. CASE AllocTensorBuffers(t) \/ CtxAllocBuffers(t) \/ GraphBuffers(t)
  BY <1>0, <1>5, OwnCall DEF AllocTensorBuffers, CtxAllocBuffers, GraphBuffers, JobStates
<1>6. CASE FreeTensorBuffers(t) \/ CtxFreeBuffers(t)
  BY <1>0, <1>6, OwnCall DEF FreeTensorBuffers, CtxFreeBuffers, JobStates
<1>7. CASE SetDumpOptions(t) \/ CtxDumpOptions(t) \/ GraphJobInfo(t)
  BY <1>0, <1>7, OwnCall DEF SetDumpOptions, CtxDumpOptions, GraphJobInfo, JobStates
<1>8. CASE GetDebugInfo(t) \/ CtxDebugInfo(t)
  BY <1>0, <1>8, OwnCall DEF GetDebugInfo, CtxDebugInfo, JobStates
<1> QED
  BY <1>1, <1>2, <1>3, <1>4, <1>5, <1>6, <1>7, <1>8 DEF GraphStep

\* AIPU_poll_jobs_status.
LEMMA PollStepInv ==
  ASSUME CtxInv, NEW t \in Threads, PollStep(t)
  PROVE  CtxInv'
<1>1. CASE PollJobsStatus(t)
  BY <1>1, CallStep DEF PollJobsStatus
<1>2. CASE GetMaxPollJobCnt(t)
  BY <1>2, GetMaxPollJobCntStep
<1>3. CASE PollStatus(t)
  BY <1>3, PollStatusStep
<1>4. CASE PollLookup(t)
  BY <1>4, LookupStep DEF PollLookup
<1>5. CASE UpdateJobStatus(t)
  BY <1>5, MethodStep DEF UpdateJobStatus, JobStates
<1> QED
  BY <1>1, <1>2, <1>3, <1>4, <1>5 DEF PollStep

\* A step of something else.
LEMMA StutterInv == CtxInv /\ UNCHANGED vars => CtxInv'
<1> SUFFICES ASSUME CtxInv, UNCHANGED vars PROVE CtxInv'
  OBVIOUS
<1>1. CtxTypeOK' /\ MapOK' /\ ObjsOK'
  BY DEF vars, CtxInv, CtxTypeOK, MapOK, ObjsOK
<1>2. \A h \in Handles, i \in Gids : data'[h] # NullPtr => EntryOK(h, i)'
  BY DEF vars, CtxInv, EntryOK, Changes, May
<1>3. \A t \in Threads : CallOK(t)' /\ ChangeOK(t)' /\ MineOK(t)'
  BY DEF vars, CtxInv, CallOK, ChangeOK, MineOK, Changes, Table, May, JobEnded
<1>4. \A t, u \in Threads : t # u => Apart(t, u)'
  BY DEF vars, CtxInv, Apart, Claims
<1> QED
  BY <1>1, <1>2, <1>3, <1>4 DEF CtxInv

\* CtxInv survives every step that the application may take.
LEMMA CtxInvIsInductive == PollApart /\ CtxInv /\ [Next]_vars => CtxInv'
<1> SUFFICES ASSUME PollApart, CtxInv, Next PROVE CtxInv'
  BY StutterInv
<1>1. PICK t \in Threads : ContextStep(t) \/ TableStep(t) \/ GraphStep(t) \/ PollStep(t)
  BY DEF Next
<1> QED
  BY <1>1, ContextStepInv, TableStepInv, GraphStepInv, PollStepInv

-----------------------------------------------------------------------------
(* The theorems.                                                           *)

\* CtxInv always holds.
LEMMA SpecInv == PollApart => (Spec => []CtxInv)
<1> SUFFICES ASSUME PollApart PROVE Spec => []CtxInv
  OBVIOUS
<1>1. CtxInv /\ [Next]_vars => CtxInv'
  BY CtxInvIsInductive
<1> QED
  BY <1>1, InitInv, PTL DEF Spec

\* No thread calls through a pointer to a context or a graph that has been deleted, or
\* through a null entry: get_ctx_ref and get_graph_object return bare pointers, and the
\* walks over the table (get_max_poll_job_cnt, is_deinit_ok, force_deinit) call every
\* entry.  It takes an application in which no thread polls beside one that unloads.
THEOREM PointersAreLive == PollApart => (Spec => []PointersLive)
<1> SUFFICES ASSUME PollApart PROVE Spec => []PointersLive
  OBVIOUS
<1>1. CtxInv => PointersLive
  BY PointersFromInv
<1>2. Spec => []CtxInv
  BY SpecInv
<1> QED
  BY <1>1, <1>2, PTL

-----------------------------------------------------------------------------
(* What is kept when an unload ends half way: HalfOK and NoGraphLost.      *)

Kept == HalfOK /\ NoGraphLost

\* A step that leaves the tables and the objects alone, makes nothing half and is
\* not about a graph that is being published.
LEMMA KeptStep ==
  ASSUME Kept, UNCHANGED <<setup, data, graphs, obj, mine>>,
         \A g \in Objs : job'[g] = "HALF" => job[g] = "HALF",
         \A u \in Threads :
            /\ pc'[u] = "publish" <=> pc[u] = "publish"
            /\ pc[u] = "publish" => gptr'[u] = gptr[u]
  PROVE  Kept'
<1>1. HalfOK'
  BY DEF Kept, HalfOK, May
<1>2. NoGraphLost'
  BY DEF Kept, NoGraphLost, At
<1> QED
  BY <1>1, <1>2 DEF Kept

\* Returning and going on leave the other threads where they are.
LEMMA KeptPcs ==
  ASSUME CtxInv, NEW t \in Threads, pc[t] # "publish",
         \/ Return(t)
         \/ (\E where \in Pcs \ {"publish"} : Goto(t, where)) /\ UNCHANGED gptr
         \/ (\E where \in Pcs \ {"publish"} : Goto(t, where))
              /\ (\E g : gptr' = [gptr EXCEPT ![t] = g])
         \/ UNCHANGED <<pc, gptr>>
  PROVE  \A u \in Threads :
            /\ pc'[u] = "publish" <=> pc[u] = "publish"
            /\ pc[u] = "publish" => gptr'[u] = gptr[u]
<1>1. CASE Return(t)
  BY <1>1 DEF Return, Goto, CtxInv, CtxTypeOK
<1>2. CASE (\E where \in Pcs \ {"publish"} : Goto(t, where)) /\ UNCHANGED gptr
  BY <1>2 DEF Goto, CtxInv, CtxTypeOK
<1>3. CASE /\ \E where \in Pcs \ {"publish"} : Goto(t, where)
           /\ \E g : gptr' = [gptr EXCEPT ![t] = g]
  BY <1>3 DEF Goto, CtxInv, CtxTypeOK
<1>4. CASE UNCHANGED <<pc, gptr>>
  BY <1>4
<1> QED
  BY <1>1, <1>2, <1>3, <1>4

\* The call of a function.
LEMMA KeptCall ==
  ASSUME CtxInv, Kept, NEW t \in Threads, NEW op \in Pcs \ {"publish"},
         Call(t, op) \/ CallGraph(t, op)
  PROVE  Kept'
<1>1. UNCHANGED <<tables, gptr, mine>> /\ pc[t] = "idle"
  BY DEF Call, CallGraph, At
<1>2. (\E where \in Pcs \ {"publish"} : Goto(t, where)) \/ UNCHANGED pc
  BY DEF Call, CallGraph
<1>3. \A u \in Threads : /\ pc'[u] = "publish" <=> pc[u] = "publish"
                         /\ pc[u] = "publish" => gptr'[u] = gptr[u]
  BY <1>1, <1>2, KeptPcs
<1> QED
  BY <1>1, <1>3, KeptStep DEF tables

\* The look-up of the graph.
LEMMA KeptLookup ==
  ASSUME CtxInv, Kept, NEW t \in Threads, NEW op \in Pcs \ {"publish"},
         NEW next \in Pcs \ {"publish"}, GetGraphObject(t, op, next)
  PROVE  Kept'
<1>1. UNCHANGED <<tables, mine>> /\ pc[t] # "publish"
  BY DEF GetGraphObject, At
<1>2. \/ Return(t)
      \/ Goto(t, next) /\ \E g : gptr' = [gptr EXCEPT ![t] = g]
  BY DEF GetGraphObject
<1>3. \A u \in Threads : /\ pc'[u] = "publish" <=> pc[u] = "publish"
                         /\ pc[u] = "publish" => gptr'[u] = gptr[u]
  BY <1>1, <1>2, KeptPcs
<1> QED
  BY <1>1, <1>3, KeptStep DEF tables

\* A method moves a job, and to no half-unloaded state.
LEMMA KeptMethod ==
  ASSUME CtxInv, Kept, NEW t \in Threads, NEW where \in Pcs \ {"publish"}, NEW from,
         NEW to \in JobStates \ {"HALF"}, GraphMethod(t, where, from, to)
  PROVE  Kept'
<1>1. /\ UNCHANGED <<setup, data, graphs, obj, mine>> /\ pc[t] # "publish" /\ Return(t)
      /\ job' = [job EXCEPT ![gptr[t]] = IF @ = from THEN to ELSE @]
  BY DEF GraphMethod, At
<1>2. \A g \in Objs : job'[g] = "HALF" => job[g] = "HALF"
  BY <1>1 DEF CtxInv, CtxTypeOK
<1>3. \A u \in Threads : /\ pc'[u] = "publish" <=> pc[u] = "publish"
                         /\ pc[u] = "publish" => gptr'[u] = gptr[u]
  BY <1>1, KeptPcs
<1> QED
  BY <1>1, <1>2, <1>3, KeptStep

\* The functions about a graph, and polling.
LEMMA KeptGraphStep ==
  ASSUME CtxInv, Kept, NEW t \in Threads, GraphStep(t) \/ PollStep(t)
  PROVE  Kept'
<1>0. /\ OwnLookups \cup OwnMethods \cup PollPcs \subseteq Pcs \ {"publish"}
      /\ {"none", "BUILT", "SCHED", "DONE", "BUSY"} \subseteq JobStates \ {"HALF"}
  BY DEF Pcs, OwnLookups, OwnMethods, PollPcs, JobStates
<1>1. CASE \E op \in OwnLookups \cup PollPcs : CallGraph(t, op) \/ Call(t, op)
  BY <1>0, <1>1, KeptCall
<1>2. CASE \E op \in OwnLookups \cup PollPcs, next \in OwnMethods \cup PollPcs :
             GetGraphObject(t, op, next)
  BY <1>0, <1>2, KeptLookup
<1>3. CASE \E where \in OwnMethods \cup PollPcs, from \in {"none", "BUILT", "SCHED", "DONE"},
              to \in {"none", "BUILT", "SCHED", "DONE", "BUSY"} : GraphMethod(t, where, from, to)
  BY <1>0, <1>3, KeptMethod
<1>4. CASE GetMaxPollJobCnt(t) \/ PollStatus(t)
  <2>1. UNCHANGED <<tables, mine>> /\ pc[t] # "publish"
    BY <1>4 DEF GetMaxPollJobCnt, PollStatus, At
  <2>2. \/ Return(t)
        \/ (\E where \in Pcs \ {"publish"} : Goto(t, where)) /\ UNCHANGED gptr
    <3>1. "poll_status" \in Pcs \ {"publish"} /\ "poll_lookup" \in Pcs \ {"publish"}
      BY <1>0 DEF PollPcs
    <3> QED
      BY <1>4, <3>1 DEF GetMaxPollJobCnt, PollStatus
  <2>3. \A u \in Threads : /\ pc'[u] = "publish" <=> pc[u] = "publish"
                           /\ pc[u] = "publish" => gptr'[u] = gptr[u]
    BY <2>1, <2>2, KeptPcs
  <2> QED
    BY <2>1, <2>3, KeptStep DEF tables
<1>5. CASE GraphStep(t)
  <2>1. \/ \E op \in OwnLookups \cup PollPcs : CallGraph(t, op) \/ Call(t, op)
        \/ \E op \in OwnLookups \cup PollPcs, next \in OwnMethods \cup PollPcs :
             GetGraphObject(t, op, next)
        \/ \E where \in OwnMethods \cup PollPcs, from \in {"none", "BUILT", "SCHED", "DONE"},
              to \in {"none", "BUILT", "SCHED", "DONE", "BUSY"} : GraphMethod(t, where, from, to)
    BY <1>5 DEF GraphStep, OwnLookups, OwnMethods, CreateJob, CreateNewJob, BuildNewJob,
       BuildRefused, FlushJob, CtxFlushJob, GraphFlushJob, GetJobStatus, WaitForJobEnd, GraphWait,
       CleanJob, CtxCleanJob, GraphCleanJob, AllocTensorBuffers, CtxAllocBuffers,
       FreeTensorBuffers, CtxFreeBuffers, GraphBuffers, SetDumpOptions, CtxDumpOptions,
       GetDebugInfo, CtxDebugInfo, GraphJobInfo
  <2> QED
    BY <1>1, <1>2, <1>3, <2>1
<1>6. CASE PollStep(t)
  <2>1. \/ \E op \in OwnLookups \cup PollPcs : CallGraph(t, op) \/ Call(t, op)
        \/ \E op \in OwnLookups \cup PollPcs, next \in OwnMethods \cup PollPcs :
             GetGraphObject(t, op, next)
        \/ \E where \in OwnMethods \cup PollPcs, from \in {"none", "BUILT", "SCHED", "DONE"},
              to \in {"none", "BUILT", "SCHED", "DONE", "BUSY"} : GraphMethod(t, where, from, to)
        \/ GetMaxPollJobCnt(t) \/ PollStatus(t)
    BY <1>6 DEF PollStep, PollPcs, PollJobsStatus, PollLookup, UpdateJobStatus
  <2> QED
    BY <1>1, <1>2, <1>3, <1>4, <2>1
<1> QED
  BY <1>5, <1>6

\* t sets an entry that is no loaded graph; one that it publishes there is whole.
LEMMA KeptEntry ==
  ASSUME CtxInv, Kept, NEW t \in Threads, pc[t] # "idle", NEW i \in Gids,
         NEW e \in {Absent, NullPtr} \cup Objs, SetEntry(t, i, e),
         UNCHANGED <<setup, data, obj, job>>,
         Table(t)[i] \in Objs => obj[Table(t)[i]] # "loaded",
         e \in Objs => job[e] # "HALF",
         \A u \in Threads :
            /\ pc'[u] = "publish" => pc[u] = "publish" /\ gptr'[u] = gptr[u]
            /\ pc[u] = "publish" =>
                 (pc'[u] = "publish" /\ gptr'[u] = gptr[u]) \/ gptr[u] = e,
         \A u \in Threads : mine'[u] \subseteq mine[u] \cup {<<handle[t], i>>}
  PROVE  Kept'
<1>1. cptr[t] \in Ctxs /\ cptr[t] = data[handle[t]] /\ handle[t] \in Handles
      /\ data[handle[t]] # NullPtr
  BY CallContext
<1>2. /\ graphs'[cptr[t]][i] = e
      /\ \A c \in Ctxs, k \in Gids : c # cptr[t] \/ k # i => graphs'[c][k] = graphs[c][k]
  BY <1>1 DEF SetEntry, CtxInv, CtxTypeOK
<1>3. Absent \notin Objs /\ NullPtr \notin Objs /\ NullPtr \notin Ctxs
  BY ContextAssumption DEF Objs, Ctxs, Absent, NullPtr
<1>4. HalfOK'
  <2> SUFFICES ASSUME NEW g \in Objs, job[g] = "HALF", NEW u \in Threads, NEW d \in mine'[u],
                      graphs'[data[d[1]]][d[2]] = g
               PROVE  "unload_graph" \in May[u]
    BY DEF Kept, HalfOK, May
  <2>1. d # <<handle[t], i>>
    BY <1>1, <1>2, <1>3
  <2>2. d \in mine[u] /\ d[1] \in open /\ d[1] \in Handles /\ d[2] \in Gids
    <3>1. d \in mine[u] /\ MineOK(u) /\ mine[u] \subseteq Handles \X Gids
      BY <2>1 DEF CtxInv, CtxTypeOK
    <3> QED
      BY <3>1 DEF MineOK
  <2>3. data[d[1]] \in Ctxs
    BY <2>2 DEF CtxInv, MapOK, CtxTypeOK
  <2>4. data[d[1]] # cptr[t] \/ d[2] # i
    BY <1>2, <1>3
  <2>5. graphs[data[d[1]]][d[2]] = g
    BY <1>2, <2>2, <2>3, <2>4
  <2> QED
    BY <2>2, <2>5 DEF Kept, HalfOK
<1>5. NoGraphLost'
  <2> SUFFICES ASSUME NEW g \in Objs, obj[g] = "loaded"
               PROVE  \/ \E h \in Handles, k \in Gids :
                           data[h] # NullPtr /\ graphs'[data[h]][k] = g
                      \/ \E u \in Threads : pc'[u] = "publish" /\ gptr'[u] = g
    BY DEF NoGraphLost, At
  <2>1. CASE g = e
    BY <1>1, <1>2, <2>1
  <2>2. CASE g # e /\ \E u \in Threads : pc[u] = "publish" /\ gptr[u] = g
    BY <2>2
  <2>3. CASE \E h \in Handles, k \in Gids : data[h] # NullPtr /\ graphs[data[h]][k] = g
    <3>1. PICK h \in Handles, k \in Gids : data[h] # NullPtr /\ graphs[data[h]][k] = g
      BY <2>3
    <3>2. data[h] \in Ctxs
      BY <3>1 DEF CtxInv, CtxTypeOK
    <3>3. data[h] # cptr[t] \/ k # i
      BY <3>1 DEF Table
    <3> QED
      BY <1>2, <3>1, <3>2, <3>3
  <2> QED
    BY <2>1, <2>2, <2>3 DEF Kept, NoGraphLost, At
<1> QED
  BY <1>4, <1>5 DEF Kept

\* The reserved id was nobody's.
LEMMA KeptLoadReserve ==
  ASSUME CtxInv, Kept, NEW t \in Threads, LoadReserve(t)
  PROVE  Kept'
<1>1. /\ pc[t] = "load_graph" /\ Goto(t, "create_graph_object")
      /\ UNCHANGED <<setup, data, obj, job, gptr, mine>>
  BY DEF LoadReserve, At
<1>2. PICK i : i = CreateUniqueGraphId(Table(t)) /\ SetEntry(t, i, NullPtr)
  BY DEF LoadReserve
<1>3. i \in Gids /\ Table(t)[i] = Absent
  BY <1>2, UniqueIdIsFree DEF LoadReserve
<1>4. \A u \in Threads : /\ pc'[u] = "publish" => pc[u] = "publish" /\ gptr'[u] = gptr[u]
                         /\ pc[u] = "publish" => pc'[u] = "publish" /\ gptr'[u] = gptr[u]
  BY <1>1 DEF Goto, CtxInv, CtxTypeOK
<1>5. Absent \notin Objs /\ NullPtr \notin Objs
  BY ContextAssumption DEF Objs, Absent, NullPtr
<1> QED
  BY <1>1, <1>2, <1>3, <1>4, <1>5, KeptEntry

\* The new object is on its way to the table.
LEMMA KeptCreate ==
  ASSUME CtxInv, Kept, NEW t \in Threads, CreateGraphObject(t)
  PROVE  Kept'
<1>1. /\ pc[t] = "create_graph_object" /\ Goto(t, "publish")
      /\ UNCHANGED <<setup, data, graphs, job, mine>>
  BY DEF CreateGraphObject, At
<1>2. PICK g \in NewObjs : obj' = [obj EXCEPT ![g] = "loaded"] /\ gptr' = [gptr EXCEPT ![t] = g]
  BY DEF CreateGraphObject
<1>3. g \in Objs /\ obj[g] = "none"
  <2>1. setup.max_objs \in 1..MaxObjs
    BY ContextAssumption DEF CtxInv, CtxTypeOK
  <2> QED
    BY <1>2, <2>1, ContextAssumption DEF NewObjs, Objs
<1>4. /\ pc'[t] = "publish" /\ gptr'[t] = g
      /\ \A u \in Threads \ {t} : pc'[u] = pc[u] /\ gptr'[u] = gptr[u]
      /\ obj'[g] = "loaded" /\ \A o \in Objs \ {g} : obj'[o] = obj[o]
  BY <1>1, <1>2, <1>3 DEF Goto, CtxInv, CtxTypeOK
<1>5. job[g] # "HALF"
  BY <1>3 DEF Kept, HalfOK
<1>6. HalfOK'
  BY <1>1, <1>3, <1>4, <1>5 DEF Kept, HalfOK, May
<1>7. NoGraphLost'
  <2> SUFFICES ASSUME NEW o \in Objs, obj'[o] = "loaded"
               PROVE  \/ \E h \in Handles, i \in Gids : data[h] # NullPtr /\ graphs[data[h]][i] = o
                      \/ \E u \in Threads : pc'[u] = "publish" /\ gptr'[u] = o
    BY <1>1 DEF NoGraphLost, At
  <2>1. CASE o = g
    BY <1>4, <2>1
  <2>2. CASE o # g
    BY <1>1, <1>4, <2>2 DEF Kept, NoGraphLost, At
  <2> QED
    BY <2>1, <2>2
<1> QED
  BY <1>6, <1>7 DEF Kept

\* The entry was the reservation.
LEMMA KeptPublish ==
  ASSUME CtxInv, Kept, NEW t \in Threads, LoadPublish(t)
  PROVE  Kept'
<1>1. /\ pc[t] = "publish" /\ Return(t) /\ SetEntry(t, gid[t], gptr[t])
      /\ UNCHANGED <<setup, data, obj, job>>
      /\ mine' = [mine EXCEPT ![t] = @ \cup {<<handle[t], gid[t]>>}]
  BY DEF LoadPublish, At
<1>2. /\ gid[t] \in Gids /\ Table(t)[gid[t]] = NullPtr /\ gptr[t] \in Objs
  BY <1>1 DEF CtxInv, ChangeOK, EntryPcs
<1>3. job[gptr[t]] # "HALF" /\ NullPtr \notin Objs
  BY <1>1, <1>2, ContextAssumption DEF Kept, HalfOK, Objs, NullPtr
<1>4. /\ pc'[t] = "idle" /\ \A u \in Threads \ {t} : pc'[u] = pc[u] /\ gptr'[u] = gptr[u]
      /\ \A u \in Threads : mine'[u] \subseteq mine[u] \cup {<<handle[t], gid[t]>>}
  BY <1>1 DEF Return, Goto, CtxInv, CtxTypeOK
<1>5. \A u \in Threads :
        /\ pc'[u] = "publish" => pc[u] = "publish" /\ gptr'[u] = gptr[u]
        /\ pc[u] = "publish" =>
             (pc'[u] = "publish" /\ gptr'[u] = gptr[u]) \/ gptr[u] = gptr[t]
  BY <1>4
<1> QED
  BY <1>1, <1>2, <1>3, <1>4, <1>5, KeptEntry

\* The entry that goes is a reservation or a deleted object.
LEMMA KeptErase ==
  ASSUME CtxInv, Kept, NEW t \in Threads, EraseEntry(t)
  PROVE  Kept'
<1>1. /\ pc[t] = "erase" /\ Return(t) /\ SetEntry(t, gid[t], Absent)
      /\ UNCHANGED <<setup, data, obj, job>>
      /\ mine' = [mine EXCEPT ![t] = @ \ {<<handle[t], gid[t]>>}]
  BY DEF EraseEntry, At
<1>2. /\ gid[t] \in Gids
      /\ Table(t)[gid[t]] = NullPtr \/ obj[Table(t)[gid[t]]] = "deleted"
  BY <1>1 DEF CtxInv, ChangeOK, EntryPcs
<1>3. Absent \notin Objs /\ NullPtr \notin Objs
  BY ContextAssumption DEF Objs, Absent, NullPtr
<1>4. /\ \A u \in Threads : /\ pc'[u] = "publish" <=> pc[u] = "publish"
                            /\ pc[u] = "publish" => gptr'[u] = gptr[u]
      /\ \A u \in Threads : mine'[u] \subseteq mine[u] \cup {<<handle[t], gid[t]>>}
  BY <1>1 DEF Return, Goto, CtxInv, CtxTypeOK
<1> QED
  BY <1>1, <1>2, <1>3, <1>4, KeptEntry

\* An unload that ends half way leaves the graph to its thread.
LEMMA KeptDestroy ==
  ASSUME CtxInv, Kept, NEW t \in Threads, DestroyGraphObject(t)
  PROVE  Kept'
<1>1. /\ pc[t] = "destroy_graph_object"
      /\ UNCHANGED <<setup, data, graphs, handle, gid, mine>>
      /\ \/ /\ obj' = [obj EXCEPT ![gptr[t]] = "deleted"] /\ Goto(t, "erase")
            /\ UNCHANGED <<job, gptr>>
         \/ /\ job' = [job EXCEPT ![gptr[t]] = IF UnloadHalf(gptr[t]) THEN "HALF" ELSE @]
            /\ Return(t) /\ UNCHANGED obj
  BY DEF DestroyGraphObject, At
<1>2. /\ gid[t] \in Gids /\ handle[t] \in Handles /\ cptr[t] \in Ctxs
      /\ Table(t)[gid[t]] \in Objs /\ obj[Table(t)[gid[t]]] = "loaded"
      /\ gptr[t] = Table(t)[gid[t]] /\ <<handle[t], gid[t]>> \in mine[t]
      /\ cptr[t] = data[handle[t]] /\ data[handle[t]] # NullPtr
      /\ "unload_graph" \in May[t]
  <2>1. CallOK(t) /\ pc[t] \in OwnMethods /\ pc[t] \in UnloadPcs /\ pc[t] # "idle"
    BY <1>1 DEF CtxInv, OwnMethods, UnloadPcs
  <2>2. /\ gptr[t] = Table(t)[gid[t]] /\ <<handle[t], gid[t]>> \in mine[t]
        /\ "unload_graph" \in May[t]
    BY <2>1 DEF CallOK
  <2> QED
    BY <2>1, <2>2, OwnEntry, CallContext
<1>3. PICK g \in Objs : g = gptr[t]
  BY <1>2
<1>4. /\ \A o \in Objs \ {g} : obj'[o] = obj[o] /\ job'[o] = job[o]
      /\ obj'[g] \in {"loaded", "deleted"}
  BY <1>1, <1>2, <1>3 DEF CtxInv, CtxTypeOK
<1>5. \A u \in Threads : /\ pc'[u] = "publish" <=> pc[u] = "publish"
                         /\ pc[u] = "publish" => gptr'[u] = gptr[u]
  BY <1>1 DEF Return, Goto, CtxInv, CtxTypeOK
\* g is the graph of this descriptor, of this thread and of nothing else.
<1>6. ASSUME NEW u \in Threads, NEW d \in mine[u], graphs[data[d[1]]][d[2]] = g
      PROVE  u = t
  <2>1. /\ MineOK(u) /\ mine[u] \subseteq Handles \X Gids
    BY DEF CtxInv, CtxTypeOK
  <2>2. d = <<d[1], d[2]>> /\ d[1] \in Handles /\ d[2] \in Gids /\ d[1] \in open
    BY <2>1 DEF MineOK
  <2>3. data[d[1]] \in Ctxs /\ data[d[1]] # NullPtr
    BY <2>2 DEF CtxInv, MapOK, CtxTypeOK
  <2>4. data[d[1]] = cptr[t] /\ d[2] = gid[t]
    BY <1>2, <1>3, <1>6, <2>2, <2>3 DEF CtxInv, ObjsOK, Table
  <2>5. d[1] = handle[t]
    BY <1>2, <2>2, <2>3, <2>4 DEF CtxInv, MapOK
  <2>6. d \in Claims(t) /\ d \in Claims(u)
    BY <1>2, <2>2, <2>4, <2>5 DEF Claims
  <2> QED
    BY <2>6 DEF CtxInv, Apart
<1>7. \A u \in Threads : pc[u] = "publish" => gptr[u] # g
  <2> SUFFICES ASSUME NEW u \in Threads, pc[u] = "publish" PROVE gptr[u] # g
    OBVIOUS
  <2>1. \A c \in Ctxs, i \in Gids : graphs[c][i] # gptr[u]
    BY DEF CtxInv, ChangeOK
  <2> QED
    BY <1>2, <1>3, <2>1 DEF Table
<1>8. HalfOK'
  <2>1. ASSUME NEW o \in Objs \ {g}, job'[o] = "HALF"
        PROVE  /\ obj'[o] # "none"
               /\ \A u \in Threads : pc'[u] = "publish" => gptr'[u] # o
               /\ \A u \in Threads : \A d \in mine[u] :
                    graphs[data[d[1]]][d[2]] = o => "unload_graph" \in May[u]
    BY <1>4, <1>5, <2>1 DEF Kept, HalfOK
  <2>2. /\ obj'[g] # "none"
        /\ \A u \in Threads : pc'[u] = "publish" => gptr'[u] # g
        /\ \A u \in Threads : \A d \in mine[u] :
             graphs[data[d[1]]][d[2]] = g => "unload_graph" \in May[u]
    BY <1>2, <1>4, <1>5, <1>6, <1>7
  <2> QED
    BY <1>1, <2>1, <2>2 DEF HalfOK, May
<1>9. NoGraphLost'
  <2> SUFFICES ASSUME NEW o \in Objs, obj'[o] = "loaded"
               PROVE  \/ \E h \in Handles, i \in Gids : data[h] # NullPtr /\ graphs[data[h]][i] = o
                      \/ \E u \in Threads : pc[u] = "publish" /\ gptr[u] = o
    BY <1>1, <1>5 DEF NoGraphLost, At
  <2>1. obj[o] = "loaded"
    BY <1>2, <1>3, <1>4
  <2> QED
    BY <2>1 DEF Kept, NoGraphLost, At
<1> QED
  BY <1>8, <1>9 DEF Kept

\* force_deinit: is_deinit_ok has said that all jobs have ended, so every graph of
\* the table is given up.
LEMMA KeptForceDeinit ==
  ASSUME CtxInv, Kept, NEW t \in Threads, ForceDeinit(t)
  PROVE  Kept'
<1> DEFINE All == {Table(t)[i] : i \in {k \in Gids : Table(t)[k] # Absent}}
<1>1. /\ pc[t] = "force_deinit" /\ Goto(t, "destroy_ctx_ref")
      /\ obj' = [g \in Objs |-> IF g \in All /\ JobEnded(g) THEN "unloaded" ELSE obj[g]]
      /\ job' = [g \in Objs |-> IF g \in All /\ JobEnded(g) THEN "none" ELSE job[g]]
      /\ graphs' = [graphs EXCEPT ![cptr[t]] = [i \in Gids |-> Absent]]
      /\ UNCHANGED <<setup, data, gptr, mine>>
  BY DEF ForceDeinit, At
<1>2. cptr[t] \in Ctxs
  BY <1>1, CallContext
<1>3. \A g \in All : JobEnded(g)
  <2>1. \A i \in Gids : Table(t)[i] # Absent => JobEnded(Table(t)[i])
    BY <1>1 DEF CtxInv, CallOK
  <2> QED
    BY <2>1
<1>4. Absent \notin Objs
  BY ContextAssumption DEF Objs, Absent
<1>5. /\ \A i \in Gids : graphs'[cptr[t]][i] = Absent
      /\ \A c \in Ctxs, i \in Gids : c # cptr[t] => graphs'[c][i] = graphs[c][i]
  BY <1>1, <1>2 DEF CtxInv, CtxTypeOK
<1>6. \A u \in Threads : /\ pc'[u] = "publish" <=> pc[u] = "publish"
                         /\ pc[u] = "publish" => gptr'[u] = gptr[u]
  BY <1>1 DEF Goto, CtxInv, CtxTypeOK
<1>7. \A g \in Objs : /\ job'[g] = "HALF" => job[g] = "HALF"
                      /\ obj'[g] = "none" => obj[g] = "none"
                      /\ obj'[g] = "loaded" => obj[g] = "loaded" /\ g \notin All
  BY <1>1, <1>3
<1>8. HalfOK'
  <2> SUFFICES ASSUME NEW g \in Objs, job'[g] = "HALF", NEW u \in Threads, NEW d \in mine[u],
                      graphs'[data[d[1]]][d[2]] = g
               PROVE  "unload_graph" \in May[u]
    BY <1>1, <1>6, <1>7 DEF Kept, HalfOK, May
  <2>1. d[1] \in open /\ d[1] \in Handles /\ d[2] \in Gids
    <3>1. MineOK(u) /\ mine[u] \subseteq Handles \X Gids
      BY DEF CtxInv, CtxTypeOK
    <3> QED
      BY <3>1 DEF MineOK
  <2>2. data[d[1]] \in Ctxs
    BY <2>1 DEF CtxInv, MapOK, CtxTypeOK
  <2>3. graphs[data[d[1]]][d[2]] = g
    BY <1>4, <1>5, <2>1, <2>2
  <2> QED
    BY <1>7, <2>3 DEF Kept, HalfOK
<1>9. NoGraphLost'
  <2> SUFFICES ASSUME NEW g \in Objs, obj'[g] = "loaded"
               PROVE  \/ \E h \in Handles, i \in Gids :
                           data[h] # NullPtr /\ graphs'[data[h]][i] = g
                      \/ \E u \in Threads : pc[u] = "publish" /\ gptr[u] = g
    BY <1>1, <1>6 DEF NoGraphLost, At
  <2>1. obj[g] = "loaded" /\ g \notin All
    BY <1>7
  <2>2. CASE \E h \in Handles, i \in Gids : data[h] # NullPtr /\ graphs[data[h]][i] = g
    <3>1. PICK h \in Handles, i \in Gids : data[h] # NullPtr /\ graphs[data[h]][i] = g
      BY <2>2
    <3>2. data[h] \in Ctxs
      BY <3>1 DEF CtxInv, CtxTypeOK
    <3>3. data[h] # cptr[t]
      BY <1>4, <2>1, <3>1 DEF Table
    <3> QED
      BY <1>5, <3>1, <3>2, <3>3
  <2> QED
    BY <2>1, <2>2 DEF Kept, NoGraphLost, At
<1> QED
  BY <1>8, <1>9 DEF Kept

\* A context that appears or goes has no graph.
LEMMA KeptContextStep ==
  ASSUME CtxInv, Kept, NEW t \in Threads, ContextStep(t)
  PROVE  Kept'
<1>0. /\ HalfOK /\ NoGraphLost
      /\ \A u \in Threads : \A d \in mine[u] : d[1] \in open /\ d[1] \in Handles
  <2>1. \A u \in Threads : MineOK(u) /\ mine[u] \subseteq Handles \X Gids
    BY DEF CtxInv, CtxTypeOK
  <2> QED
    BY <2>1 DEF MineOK, Kept
<1>1. CASE InitCtx(t)
  <2>1. PICK c \in NewCtxs : data' = [data EXCEPT ![FreeHandle] = c]
    BY <1>1 DEF InitCtx
  <2>2. UNCHANGED <<setup, graphs, obj, job, gptr, mine>> /\ pc[t] = "idle" /\ Goto(t, "init")
    BY <1>1 DEF InitCtx, At
  <2>3. \A u \in Threads : /\ pc'[u] = "publish" <=> pc[u] = "publish"
                           /\ pc[u] = "publish" => gptr'[u] = gptr[u]
    BY <2>2 DEF Goto, CtxInv, CtxTypeOK
  <2>4. data[FreeHandle] = NullPtr
    BY FreeHandleExists
  <2>5. \A h \in Handles : data[h] # NullPtr => data'[h] = data[h]
    BY <2>1, <2>4 DEF CtxInv, CtxTypeOK
  <2>6. \A u \in Threads : \A d \in mine[u] : data'[d[1]] = data[d[1]]
    BY <1>0, <2>5 DEF CtxInv, MapOK
  <2>7. HalfOK'
    BY <1>0, <2>2, <2>3, <2>6 DEF HalfOK, May
  <2>8. NoGraphLost'
    BY <1>0, <2>2, <2>3, <2>5 DEF NoGraphLost, At
  <2> QED
    BY <2>7, <2>8 DEF Kept
<1>2. CASE InitOk(t) \/ InitNoDevice(t)
  <2>1. /\ UNCHANGED <<setup, data, graphs, obj, job, mine>>
        /\ pc[t] # "publish" /\ Return(t)
    BY <1>2 DEF InitOk, InitNoDevice, OpenDevice, At
  <2>2. \A u \in Threads : /\ pc'[u] = "publish" <=> pc[u] = "publish"
                           /\ pc[u] = "publish" => gptr'[u] = gptr[u]
    BY <2>1, KeptPcs
  <2> QED
    BY <2>1, <2>2, KeptStep
\* a handle is given up whose context has no graphs
<1>3. ASSUME pc[t] \in {"init", "destroy_ctx_ref"}, Return(t),
             data' = [data EXCEPT ![handle[t]] = NullPtr],
             UNCHANGED <<setup, graphs, obj, job>>,
             \A u \in Threads : \A d \in mine'[u] : d \in mine[u] /\ d[1] # handle[t],
             \A i \in Gids : graphs[data[handle[t]]][i] = Absent
      PROVE  Kept'
  <2>1. \A u \in Threads : /\ pc'[u] = "publish" <=> pc[u] = "publish"
                           /\ pc[u] = "publish" => gptr'[u] = gptr[u]
    BY <1>3, KeptPcs
  <2>2. \A h \in Handles : h # handle[t] => data'[h] = data[h]
    BY <1>3 DEF CtxInv, CtxTypeOK
  <2>3. HalfOK'
    BY <1>0, <1>3, <2>1, <2>2 DEF HalfOK, May
  <2>4. NoGraphLost'
    <3> SUFFICES ASSUME NEW g \in Objs, obj[g] = "loaded",
                        ~\E u \in Threads : pc[u] = "publish" /\ gptr[u] = g
                 PROVE  \E h \in Handles, i \in Gids :
                          data'[h] # NullPtr /\ graphs'[data'[h]][i] = g
      BY <1>3, <2>1 DEF NoGraphLost, At
    <3>1. PICK h \in Handles, i \in Gids : data[h] # NullPtr /\ graphs[data[h]][i] = g
      BY <1>0 DEF NoGraphLost, At
    <3>2. h # handle[t]
      BY <1>3, <3>1, ContextAssumption DEF Objs, Absent
    <3> QED
      BY <1>3, <2>2, <3>1, <3>2
  <2> QED
    BY <2>3, <2>4 DEF Kept
<1>4. CASE InitRefused(t)
  <2>1. CallOK(t) /\ pc[t] = "init" /\ cptr[t] = data[handle[t]] /\ cptr[t] \in Ctxs
    BY <1>4, CallContext DEF InitRefused, At, CtxInv
  <2>2. handle[t] \notin open /\ ctx[cptr[t]] = "made"
    BY <2>1 DEF CallOK
  <2>3. \A i \in Gids : graphs[data[handle[t]]][i] = Absent
    BY <2>1, <2>2 DEF CtxInv, MapOK
  <2> QED
    BY <1>0, <1>3, <1>4, <2>1, <2>2, <2>3 DEF InitRefused
<1>5. CASE DestroyCtxRef(t)
  <2>1. CallOK(t) /\ pc[t] = "destroy_ctx_ref" /\ cptr[t] = data[handle[t]]
    BY <1>5, CallContext DEF DestroyCtxRef, At, CtxInv
  <2>2. \A i \in Gids : graphs[data[handle[t]]][i] = Absent
    BY <2>1 DEF CallOK, Table
  <2> QED
    BY <1>3, <1>5, <2>1, <2>2 DEF DestroyCtxRef
<1>6. CASE DeinitCtx(t)
  BY <1>6, KeptCall DEF DeinitCtx, Pcs, DeinitPcs
<1>7. CASE IsDeinitOk(t)
  <2>1. UNCHANGED <<tables, mine>> /\ pc[t] # "publish"
    BY <1>7 DEF IsDeinitOk, At
  <2>2. "force_deinit" \in Pcs \ {"publish"}
    BY DEF Pcs, DeinitPcs
  <2>3. Return(t) \/ (Goto(t, "force_deinit") /\ UNCHANGED gptr)
    BY <1>7 DEF IsDeinitOk
  <2>4. \A u \in Threads : /\ pc'[u] = "publish" <=> pc[u] = "publish"
                           /\ pc[u] = "publish" => gptr'[u] = gptr[u]
    BY <2>1, <2>2, <2>3, KeptPcs
  <2> QED
    BY <2>1, <2>4, KeptStep DEF tables
<1>8. CASE ForceDeinit(t)
  BY <1>8, KeptForceDeinit
<1> QED
  BY <1>1, <1>2, <1>4, <1>5, <1>6, <1>7, <1>8 DEF ContextStep

\* load_graph and unload_graph
LEMMA KeptTableStep ==
  ASSUME CtxInv, Kept, NEW t \in Threads, TableStep(t)
  PROVE  Kept'
<1>1. CASE LoadGraph(t) \/ UnloadGraph(t)
  <2>1. {"load_graph", "unload_graph"} \subseteq Pcs \ {"publish"}
    BY DEF Pcs, OwnLookups
  <2> QED
    BY <1>1, <2>1, KeptCall DEF LoadGraph, UnloadGraph
<1>2. CASE UnloadLookup(t)
  BY <1>2, KeptLookup DEF UnloadLookup, Pcs, OwnLookups, OwnMethods
<1>3. CASE LoadInvalid(t) \/ CreateGraphObjectFails(t)
  <2>1. UNCHANGED <<tables, mine>> /\ pc[t] # "publish"
    BY <1>3 DEF LoadInvalid, CreateGraphObjectFails, At
  <2>2. "erase" \in Pcs \ {"publish"}
    BY DEF Pcs, EntryPcs
  <2>3. Return(t) \/ (Goto(t, "erase") /\ UNCHANGED gptr)
    BY <1>3 DEF LoadInvalid, CreateGraphObjectFails
  <2>4. \A u \in Threads : /\ pc'[u] = "publish" <=> pc[u] = "publish"
                           /\ pc[u] = "publish" => gptr'[u] = gptr[u]
    BY <2>1, <2>2, <2>3, KeptPcs
  <2> QED
    BY <2>1, <2>4, KeptStep DEF tables
<1>4. CASE LoadReserve(t)
  BY <1>4, KeptLoadReserve
<1>5. CASE CreateGraphObject(t)
  BY <1>5, KeptCreate
<1>6. CASE LoadPublish(t)
  BY <1>6, KeptPublish
<1>7. CASE EraseEntry(t)
  BY <1>7, KeptErase
<1>8. CASE DestroyGraphObject(t)
  BY <1>8, KeptDestroy
<1> QED
  BY <1>1, <1>2, <1>3, <1>4, <1>5, <1>6, <1>7, <1>8 DEF TableStep

\* Kept survives every step.
LEMMA KeptIsInductive == CtxInv /\ Kept /\ [Next]_vars => Kept'
<1> SUFFICES ASSUME CtxInv, Kept, [Next]_vars PROVE Kept'
  OBVIOUS
<1>1. CASE Next
  <2>1. PICK t \in Threads : ContextStep(t) \/ TableStep(t) \/ GraphStep(t) \/ PollStep(t)
    BY <1>1 DEF Next
  <2> QED
    BY <2>1, KeptContextStep, KeptTableStep, KeptGraphStep
<1>2. CASE UNCHANGED vars
  <2>1. /\ UNCHANGED <<setup, data, graphs, obj, mine>>
        /\ job' = job /\ pc' = pc /\ gptr' = gptr
    BY <1>2 DEF vars
  <2> QED
    BY <2>1, KeptStep
<1> QED
  BY <1>1, <1>2

\* CtxInv and Kept always hold.
LEMMA SpecKept == PollApart => (Spec => [](CtxInv /\ Kept))
<1> SUFFICES ASSUME PollApart PROVE Spec => [](CtxInv /\ Kept)
  OBVIOUS
<1>1. Spec => []CtxInv
  BY SpecInv
<1>2. Init => Kept
  BY DEF Init, Kept, HalfOK, NoGraphLost
<1>3. CtxInv /\ Kept /\ [Next]_vars => Kept'
  BY KeptIsInductive
<1> QED
  BY <1>1, <1>2, <1>3, PTL DEF Spec

\* A graph that AIPU_load_graph returned is there until its own thread unloads it or its
\* context is torn down, create_unique_graph_id_inner gave its id to nobody else, and only
\* its own thread's unload can have left it half way.
THEOREM GraphsAreKept == PollApart => (Spec => []OwnGraphLoaded)
<1> SUFFICES ASSUME PollApart PROVE Spec => []OwnGraphLoaded
  OBVIOUS
<1>1. CtxInv /\ Kept => OwnGraphLoaded
  BY OwnGraphFromInv DEF Kept
<1> QED
  BY <1>1, SpecKept, PTL

\* Whatever fails on the way, an unload that ends on a busy handle included, a Graph that
\* has not been unloaded to the end is in the table of a context that has a handle, or
\* about to be put there.
THEOREM NoGraphIsLost == PollApart => (Spec => []NoGraphLost)
<1> SUFFICES ASSUME PollApart PROVE Spec => []NoGraphLost
  OBVIOUS
<1>1. CtxInv /\ Kept => NoGraphLost
  BY DEF Kept
<1> QED
  BY <1>1, SpecKept, PTL
=============================================================================
