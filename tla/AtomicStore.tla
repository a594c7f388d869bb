---------------------------- MODULE AtomicStore ----------------------------
(***************************************************************************)
(* What the server's registry files promise (devices.yaml, accounts.yaml,  *)
(* api_keys.yaml and the psk line of server.yaml): a save is one atomic    *)
(* replacement of the file by the text the writer serialized, or nothing.  *)
(* The promise is kept for a file until two saves of it overlap; the code  *)
(* takes no lock around a save, so nothing is promised afterwards.         *)
(***************************************************************************)
CONSTANTS Files,    \* the files
          Writers,  \* who may save
          Texts,    \* what a file may hold
          Nothing   \* a writer holds no text

VARIABLES file,     \* file -> the text a reader would find
          held,     \* writer -> <<file, text>> being saved, or Nothing
          raced     \* the files whose saves have overlapped

vars == <<file, held, raced>>

Init == /\ file \in [Files -> Texts]
        /\ held = [w \in Writers |-> Nothing]
        /\ raced = {}

Saving(f) == {w \in Writers : held[w] # Nothing /\ held[w][1] = f}

(* A writer serializes what it will write; a second one makes a race. *)
Take(w) ==
  /\ held[w] = Nothing
  /\ held'[w] # Nothing
  /\ held'[w] \in Files \X Texts
  /\ held' = [held EXCEPT ![w] = held'[w]]
  /\ raced' = LET f == held'[w][1]
              IN  IF Saving(f) = {} THEN raced ELSE raced \cup {f}
  /\ UNCHANGED file

(* The save takes effect as a whole. *)
Put(w) ==
  /\ held[w] # Nothing
  /\ file' = [file EXCEPT ![held[w][1]] = held[w][2]]
  /\ UNCHANGED <<held, raced>>

(* The writer is done with the file, whether it was replaced or not. *)
Release(w) ==
  /\ held[w] # Nothing
  /\ held' = [held EXCEPT ![w] = Nothing]
  /\ UNCHANGED <<file, raced>>

PutAndRelease(w) ==
  /\ held[w] # Nothing
  /\ file' = [file EXCEPT ![held[w][1]] = held[w][2]]
  /\ held' = [held EXCEPT ![w] = Nothing]
  /\ UNCHANGED raced

(* The process dies: every save under way is over, the files stay. *)
Crash == /\ held' = [w \in Writers |-> Nothing]
         /\ UNCHANGED <<file, raced>>

(* Once saves of a file have overlapped it may hold anything at all. *)
Unprotected(f) ==
  /\ f \in raced
  /\ \A g \in Files \ {f} : file'[g] = file[g]
  /\ \A w \in Writers : held'[w] \in {held[w], Nothing}
  /\ UNCHANGED raced

Next == \/ \E w \in Writers : \/ Take(w) \/ Put(w) \/ Release(w)
                              \/ PutAndRelease(w)
        \/ Crash
        \/ \E f \in Files : Unprotected(f)

Spec == Init /\ [][Next]_vars
=============================================================================
