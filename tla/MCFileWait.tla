----------------------------- MODULE MCFileWait -----------------------------
(* TLC instance of FileWait. *)
EXTENDS FileWait

\* Two descriptors for what they can report, and one of them for errors only
MCPolls == {[api |-> "poll", fds |-> Event, wants |-> Event],
            [api |-> "select", fds |-> Event, wants |-> {"WRITE"}]}
=============================================================================
