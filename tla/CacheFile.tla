----------------------------- MODULE CacheFile ------------------------------
(* WriteFileAtomic of cache_lib.cpp, step by step: what a file of the       *)
(* pairing cache holds while several processes write it and any of them may *)
(* crash.  The module Pairing takes a write of the cache as one step; here  *)
(* it is the six system calls the code makes.                               *)
(*                                                                          *)
(* All writers of a path use the same temporary name, path.tmp.  A file is  *)
(* what was written to it: its writer and how many of its blocks.           *)
EXTENDS Naturals

CONSTANTS Writers,      \* processes that write the path (CacheSetData, CacheSetDer)
          Blocks        \* bound: calls of write() that a content takes

VARIABLES pc,           \* pc[w]: the system call that w makes next
          tmp,          \* the file named path.tmp: its creator, or "none"
          path,         \* the file named path: its creator, "old" before any
          size          \* size[w]: blocks in the file that w created

vars == <<pc, tmp, path, size>>

Init == /\ pc = [w \in Writers |-> "unlink"]
        /\ tmp = "none" /\ path = "old"
        /\ size = [w \in Writers |-> 0]

Goto(w, step) == pc' = [pc EXCEPT ![w] = step]

(* A temporary file that is left over, or that another writer is filling. *)
Unlink(w) == /\ pc[w] = "unlink" /\ Goto(w, "open")
             /\ tmp' = "none"
             /\ UNCHANGED <<path, size>>

(* O_CREAT | O_EXCL *)
Open(w) == /\ pc[w] = "open"
           /\ \/ tmp = "none" /\ tmp' = w /\ Goto(w, "write")
              \/ UNCHANGED tmp /\ Goto(w, "failed")
           /\ UNCHANGED <<path, size>>

Write_Once(w) == /\ pc[w] = "write"
                 /\ \/ size' = [size EXCEPT ![w] = 1] /\ Goto(w, "rename")
                    \/ Goto(w, "cleanup") /\ UNCHANGED size
                 /\ UNCHANGED <<tmp, path>>

(* The descriptor stays on the file that w created, whatever its name is now. *)
Write(w) == /\ pc[w] = "write"
            /\ \/ size[w] < Blocks /\ size' = [size EXCEPT ![w] = @ + 1] /\ UNCHANGED pc
               \/ size[w] = Blocks /\ Goto(w, "rename") /\ UNCHANGED size
               \/ Goto(w, "cleanup") /\ UNCHANGED size       \* write or fsync fails
            /\ UNCHANGED <<tmp, path>>

(* rename moves the file that bears the temporary name at that moment. *)
Rename(w) == /\ pc[w] = "rename"
             /\ \/ tmp # "none" /\ path' = tmp /\ tmp' = "none" /\ Goto(w, "done")
                \/ UNCHANGED <<path, tmp>> /\ Goto(w, "cleanup")
             /\ UNCHANGED size

Cleanup(w) == /\ pc[w] = "cleanup" /\ Goto(w, "failed")
              /\ tmp' = "none"
              /\ UNCHANGED <<path, size>>

Crash(w) == /\ pc[w] \notin {"done", "failed"} /\ Goto(w, "failed")
            /\ UNCHANGED <<tmp, path, size>>

Next == \E w \in Writers :
           Unlink(w) \/ Open(w) \/ Write(w) \/ Rename(w) \/ Cleanup(w) \/ Crash(w)

Spec == Init /\ [][Next]_vars

(* The comment on WriteFileAtomic: "This avoids leaving a corrupt cache     *)
(* behind on crash or on two concurrent writers".  The file at path is the  *)
(* old one or holds all that some writer wrote.                             *)
NeverCorrupt == path # "old" => size[path] = Blocks
=============================================================================
