---------------------------- MODULE MCThreadPool ----------------------------
(* ThreadPool with three threads and one more job than threads.            *)
EXTENDS ThreadPool
=============================================================================
