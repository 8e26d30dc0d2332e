---------------------------- MODULE MCUmdContext ----------------------------
(* Instances of UmdContext for TLC. *)
EXTENDS UmdContext, TLC

CONSTANTS a, b

\* Two threads that load their own graphs in one context, as in
\* multithread_test without its poll thread: one runs jobs and cleans them, the
\* other unloads a graph whose handle a refused job has left busy.
LoadAndRun == {"load_graph", "unload_graph", "create_job", "flush_job",
               "get_job_status", "clean_job"}
OwnGraphs == [may |-> a :> (LoadAndRun \cup {"init_ctx"})
                      @@ b :> {"load_graph", "unload_graph", "create_job"},
              max_ctx |-> 1, max_objs |-> 3, open_fails |-> FALSE]

\* Contexts come and go.
ContextLife == [may |-> [t \in {a, b} |-> {"init_ctx", "deinit_ctx", "load_graph",
                                          "create_job", "flush_job", "get_job_status"}],
                max_ctx |-> 2, max_objs |-> 2, open_fails |-> FALSE]

\* A poll thread beside a thread that never unloads its graph
BesidePoller == [may |-> a :> {"init_ctx", "load_graph", "create_job", "flush_job",
                               "clean_job", "alloc_tensor_buffers",
                               "free_tensor_buffers", "set_dump_options",
                               "get_debug_info"}
                         @@ b :> {"poll_jobs_status"},
                 max_ctx |-> 1, max_objs |-> 2, open_fails |-> TRUE]

MCSetups == {OwnGraphs, ContextLife, BesidePoller}
=============================================================================
