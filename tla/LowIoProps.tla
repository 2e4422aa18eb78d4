----------------------------- MODULE LowIoProps -----------------------------
(* What the owners of descriptors and mappings promise. *)
EXTENDS LowIo

Stages == {"none", "idle", "reset", "unprepared", "closed"}
Kinds == {"free", "file", "stdout", "mapping"}

TypeOK ==
  /\ windows \in BOOLEAN
  /\ stage \in [Objects -> Stages] /\ after \in [Objects -> {"none", "idle"}]
  /\ fd \in [Objects -> Descriptors \cup {Invalid}] /\ owning \in [Objects -> BOOLEAN]
  /\ mmap_fd \in [Objects -> Descriptors \cup {Invalid, Null}]
  /\ table \in [Descriptors -> Kinds]
  /\ mine \subseteq Descriptors
  /\ ptr \in [Pointers -> Addresses \cup {Null}] /\ length \in [Pointers -> Nat]
  /\ kept \in [Pointers -> {"none", "idle", "leave", "unmapped", "unmapped, leave"}]
  /\ mapped \in [Addresses -> Nat] /\ released \subseteq [at : Addresses, size : Nat]
  /\ aborted \in BOOLEAN /\ stale \subseteq Objects /\ lost \subseteq Descriptors

\* The objects that will close d: it is their descriptor, and was since they got it.
Closers(d) == {o \in Objects : /\ stage[o] \notin {"none", "closed"}
                               /\ Owns(o) /\ fd[o] = d}
Unpreparers(d) == {o \in Objects : stage[o] # "unprepared" /\ mmap_fd[o] = d}

\* Each open descriptor has one owner: one LowIo that will close it, one that has it for
\* its mappings, the program, or nobody, if TryOpen() or PrepareMmap() was called on an
\* object that was in use.  An object has a closed descriptor only while it is closing it,
\* so no thread ever closes, reads or cuts what another has been given with that number.
\* (The types of the variables are part of it.)
DescriptorsOwned ==
  /\ TypeOK
  /\ \A d \in Descriptors :
       Cardinality(Closers(d)) + Cardinality(Unpreparers(d))
         + (IF d \in mine THEN 1 ELSE 0) + (IF d \in lost THEN 1 ELSE 0)
       = IF Opened(d) THEN 1 ELSE 0
  /\ \A o \in stale : stage[o] = "closed"

\* What is mapped belongs to one MmapPtr, which knows how long it is, or was released;
\* nothing is unmapped twice, which would abort the program, or in part.
MappingsOwned ==
  /\ ~aborted
  /\ \A a \in Addresses :
       LET holders == {p \in Pointers : /\ kept[p] \in {"idle", "leave"} /\ ptr[p] = a}
           taken == {r \in released : r.at = a}
       IN  /\ Cardinality(holders) + Cardinality(taken) = IF mapped[a] > 0 THEN 1 ELSE 0
           /\ \A p \in holders : length[p] = mapped[a]
=============================================================================
