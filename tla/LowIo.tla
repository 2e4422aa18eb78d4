-------------------------------- MODULE LowIo --------------------------------
(***************************************************************************)
(* low_io.hpp and low_io.cpp: objects that own, or borrow, a descriptor of  *)
(* the system and, on Windows, a second one for mappings; and MmapPtr, the  *)
(* owner of a mapping.                                                     *)
(*                                                                         *)
(* Every object is used by one thread at a time, but the table of           *)
(* descriptors and the address space are the process's: a number or an      *)
(* address that one thread gives back is the next one that another gets.    *)
(* So a call of the system is a step, and what the code stores about it     *)
(* afterwards another one.                                                 *)
(*                                                                         *)
(* What is read, written and cut is the file's business and left out.       *)
(* Permissions and modes are, too: they decide whether open() and the other *)
(* calls of the system fail, which all may.                                 *)
(***************************************************************************)
EXTENDS Integers, FiniteSets

CONSTANTS Objects,      \* storage for LowIo
          Pointers,     \* storage for MmapPtr
          Descriptors,  \* the numbers of the table (handles on Windows)
          StdOut,       \* one of them
          Addresses,
          Invalid,      \* INVALID_FD
          Null,         \* nullptr
          MaxSize,      \* bound: the length of a mapping
          MaxLive,      \* bound: objects that there are at once, of both kinds
          MaxLost,      \* bound: descriptors that are lost
          MaxCalls      \* bound: threads that are in the middle of a call

ASSUME LowIoAssumption ==
  /\ Descriptors \subseteq Nat /\ IsFiniteSet(Descriptors) /\ StdOut \in Descriptors
  /\ Invalid \notin Descriptors /\ Null \notin Descriptors \cup Addresses /\ Invalid # Null
  /\ MaxSize \in Nat /\ MaxLive \in Nat /\ MaxLost \in Nat /\ MaxCalls \in Nat

VARIABLES windows,   \* which of the two halves of low_io.cpp is compiled
          stage,     \* how far the call on an object has come; "none": no object
          after,     \* the stage that follows Reset()
          fd, mmap_fd, owning,
          table,     \* what each descriptor is
          mine,      \* descriptors that the program opened and owns itself
          ptr, length, kept,    \* the MmapPtrs: kept[p] is how far the call on p has come
          mapped,    \* the length of what is mapped at an address
          released,  \* addresses that the program has taken out of a MmapPtr
          aborted,
          stale,     \* history: objects whose descriptor was closed after they stored it
          lost       \* history: descriptors that PrepareMmap() and TryOpen() overwrote

handles == <<fd, mmap_fd, owning>>
views == <<ptr, length, kept, mapped, released, aborted>>
vars == <<windows, stage, after, handles, table, mine, views, stale, lost>>

Init == /\ windows \in BOOLEAN
        /\ stage = [o \in Objects |-> "none"] /\ after = [o \in Objects |-> "none"]
        /\ fd = [o \in Objects |-> Invalid] /\ mmap_fd = [o \in Objects |-> Invalid]
        /\ owning = [o \in Objects |-> TRUE]
        /\ table = [d \in Descriptors |-> IF d = StdOut THEN "stdout" ELSE "free"]
        /\ mine = {StdOut}
        /\ ptr = [p \in Pointers |-> Null] /\ length = [p \in Pointers |-> 0]
        /\ kept = [p \in Pointers |-> "none"]
        /\ mapped = [a \in Addresses |-> 0] /\ released = {} /\ aborted = FALSE
        /\ stale = {} /\ lost = {}

Room == Cardinality({o \in Objects : stage[o] # "none"})
          + Cardinality({p \in Pointers : kept[p] # "none"}) + Cardinality(released) < MaxLive

\* A thread is there to run a call of several steps.
Thread == Cardinality({o \in Objects : stage[o] \notin {"none", "idle"}}) < MaxCalls
-----------------------------------------------------------------------------
(* The system.                                                             *)

Opened(d) == d \in Descriptors /\ table[d] # "free"

\* A new descriptor is the smallest one that is free, or any, and not below d.
Fresh(d) == LET free == {e \in Descriptors : e >= d /\ ~Opened(e)} IN
              IF windows THEN free ELSE {e \in free : \A f \in free : e <= f}

Enter(d, kind) == table' = [table EXCEPT ![d] = kind]

\* close() and CloseHandle(); closing what is not open is an error without effect.
Close(d) == /\ table' = [e \in Descriptors |-> IF e = d THEN "free" ELSE table[e]]
            /\ stale' = stale \cup {o \in Objects : fd[o] = d /\ stage[o] # "none"}

\* open() and CreateFileW().
OpenFile(d) == d \in Fresh(0) /\ Enter(d, "file")

\* The program opens the file without LowIo, and closes what nobody borrows.
ProgramOpen(d) == /\ OpenFile(d)
                  /\ mine' = mine \cup {d}
                  /\ UNCHANGED <<windows, stage, after, handles, views, stale, lost>>

ProgramClose(d) == /\ d \in mine \ {StdOut}
                   /\ \A o \in Objects : stage[o] # "none" => fd[o] # d
                   /\ Close(d) /\ mine' = mine \ {d}
                   /\ UNCHANGED <<windows, stage, after, handles, views, lost>>
-----------------------------------------------------------------------------
(* Construction and opening.                                               *)

\* An object comes to be.
Begin(o, d, own) == /\ stage[o] = "none" /\ Room
                    /\ stage' = [stage EXCEPT ![o] = "idle"]
                    /\ fd' = [fd EXCEPT ![o] = d] /\ owning' = [owning EXCEPT ![o] = own]
                    /\ UNCHANGED <<windows, after, mmap_fd, views, stale, lost>>

Construct(o) == Begin(o, Invalid, TRUE) /\ UNCHANGED <<table, mine>>

\* LowIo{fd} takes the descriptor over, LowIo{fd, false} borrows it.
ConstructFrom(o, d, own) == /\ d \in mine /\ (own => d # StdOut)
                            /\ own => \A x \in Objects : stage[x] # "none" => fd[x] # d
                            /\ Begin(o, d, own)
                            /\ mine' = IF own THEN mine \ {d} ELSE mine
                            /\ UNCHANGED table

\* A constructor that throws leaves no object.
ConstructOpen(o, d) == OpenFile(d) /\ Begin(o, d, TRUE) /\ UNCHANGED mine

\* fcntl(F_DUPFD_CLOEXEC, 3), DuplicateHandle(): not one of the standard descriptors.
OpenStdOut(o, d) == /\ Opened(StdOut) /\ d \in Fresh(StdOut + 1) /\ Enter(d, "stdout")
                    /\ Begin(o, d, TRUE)
                    /\ UNCHANGED mine

\* fd = open(...), whatever fd was, and whether or not the object is an owner.
TryOpen(o) ==
  /\ stage[o] = "idle"
  /\ \/ \E d \in Descriptors :
          /\ OpenFile(d)
          /\ fd' = [fd EXCEPT ![o] = d]
          /\ lost' = lost \cup (IF ~owning[o] THEN {d} ELSE {fd[o]} \ {Invalid})
     \/ /\ fd' = [fd EXCEPT ![o] = Invalid]
        /\ lost' = lost \cup (IF ~owning[o] THEN {} ELSE {fd[o]} \ {Invalid})
        /\ UNCHANGED table
  /\ Cardinality(lost') <= MaxLost
  /\ UNCHANGED <<windows, stage, after, mmap_fd, owning, mine, views, stale>>
-----------------------------------------------------------------------------
(* Moving.                                                                 *)

\* A mutant of MoveCtor: the source keeps the descriptor.
MoveCtorCopying(o, x) == /\ stage[o] = "idle" /\ stage[x] = "none"
                         /\ stage' = [stage EXCEPT ![x] = "idle"]
                         /\ fd' = [fd EXCEPT ![x] = fd[o]]
                         /\ mmap_fd' = [mmap_fd EXCEPT ![x] = mmap_fd[o], ![o] = Invalid]
                         /\ owning' = [owning EXCEPT ![x] = owning[o]]
                         /\ UNCHANGED <<windows, after, table, mine, views, stale, lost>>

\* The source keeps owning: it is still told whether what it may open is its own.
MoveCtor(o, x) == /\ stage[o] = "idle" /\ stage[x] = "none" /\ Room
                  /\ stage' = [stage EXCEPT ![x] = "idle"]
                  /\ fd' = [fd EXCEPT ![x] = fd[o], ![o] = Invalid]
                  /\ mmap_fd' = [mmap_fd EXCEPT ![x] = mmap_fd[o], ![o] = Invalid]
                  /\ owning' = [owning EXCEPT ![x] = owning[o]]
                  /\ UNCHANGED <<windows, after, table, mine, views, stale, lost>>

Exchanged(f, o, x) == [f EXCEPT ![o] = f[x], ![x] = f[o]]

Swap(o, x) == /\ stage[o] = "idle" /\ stage[x] = "idle" /\ o # x
              /\ fd' = Exchanged(fd, o, x)
              /\ mmap_fd' = Exchanged(mmap_fd, o, x)
              /\ owning' = Exchanged(owning, o, x)
              /\ UNCHANGED <<windows, stage, after, table, mine, views, stale, lost>>

\* o = std::move(x): the argument a is made from x and swapped with o; its destructor
\* is what closes the descriptor that o had.
Assign(o, x, a) ==
  /\ stage[o] = "idle" /\ stage[x] = "idle" /\ stage[a] = "none" /\ Room /\ Thread /\ o # x
  /\ fd' = [fd EXCEPT ![o] = fd[x], ![x] = Invalid, ![a] = fd[o]]
  /\ mmap_fd' = [mmap_fd EXCEPT ![o] = mmap_fd[x], ![x] = Invalid, ![a] = mmap_fd[o]]
  /\ owning' = [owning EXCEPT ![o] = owning[x], ![a] = owning[o]]
  /\ stage' = [stage EXCEPT ![a] = "reset"]
  /\ after' = [after EXCEPT ![a] = "none"]
  /\ UNCHANGED <<windows, table, mine, views, stale, lost>>
-----------------------------------------------------------------------------
(* Reset() and the destructor.                                             *)

Reset(o, next) == /\ stage[o] = "idle" /\ Thread
                  /\ stage' = [stage EXCEPT ![o] = "reset"]
                  /\ after' = [after EXCEPT ![o] = next]
                  /\ UNCHANGED <<windows, handles, table, mine, views, stale, lost>>

CloseMapping(o) == /\ stage[o] = "reset" /\ mmap_fd[o] # Invalid
                   /\ Close(mmap_fd[o])
                   /\ stage' = [stage EXCEPT ![o] = "unprepared"]
                   /\ UNCHANGED <<windows, after, handles, mine, views, lost>>

ForgetMapping(o) == /\ stage[o] = "unprepared"
                    /\ mmap_fd' = [mmap_fd EXCEPT ![o] = Invalid]
                    /\ stage' = [stage EXCEPT ![o] = "reset"]
                    /\ UNCHANGED <<windows, after, fd, owning, table, mine, views, stale, lost>>

Owns(o) == owning[o] /\ fd[o] # Invalid

CloseFd(o) == /\ stage[o] = "reset" /\ mmap_fd[o] = Invalid /\ Owns(o)
              /\ Close(fd[o])
              /\ stage' = [stage EXCEPT ![o] = "closed"]
              /\ UNCHANGED <<windows, after, handles, mine, views, lost>>

\* fd = INVALID_FD; owning = false; or nothing, if there was nothing to close.  Where
\* there is no object any more, its members are as Construct() sets them.
Leave(o) == /\ \/ stage[o] = "closed"
               \/ stage[o] = "reset" /\ mmap_fd[o] = Invalid /\ ~Owns(o)
            /\ stage' = [stage EXCEPT ![o] = after[o]]
            /\ after' = [after EXCEPT ![o] = "none"]
            /\ fd' = [fd EXCEPT ![o] = IF stage[o] = "closed" \/ after[o] = "none" THEN Invalid ELSE @]
            /\ owning' = [owning EXCEPT ![o] = IF after[o] = "none" THEN TRUE
                                               ELSE stage[o] # "closed" /\ @]
            /\ stale' = stale \ {o}
            /\ UNCHANGED <<windows, mmap_fd, table, mine, views, lost>>
-----------------------------------------------------------------------------
(* Mappings.                                                               *)

Usable(o) == stage[o] = "idle" /\ Opened(fd[o]) /\ table[fd[o]] = "file"

\* mmap_fd = CreateFileMapping(...), which gives NULL, not INVALID_FD, if it fails, as it does
\* for what is not open: the program has not asked.
PrepareMmap(o) ==
  /\ windows /\ stage[o] = "idle"
  /\ \/ \E d \in Fresh(0) : /\ Opened(fd[o]) /\ Enter(d, "mapping")
                            /\ mmap_fd' = [mmap_fd EXCEPT ![o] = d]
     \/ mmap_fd' = [mmap_fd EXCEPT ![o] = Null] /\ UNCHANGED table
  /\ lost' = lost \cup ({mmap_fd[o]} \ {Invalid, Null}) /\ Cardinality(lost') <= MaxLost
  /\ UNCHANGED <<windows, stage, after, fd, owning, mine, views, stale>>

fds == <<windows, stage, after, handles, table, mine, stale, lost>>

\* An MmapPtr comes to be.
BeginPtr(p, a, n) == /\ kept[p] = "none" /\ Room
                     /\ kept' = [kept EXCEPT ![p] = "idle"]
                     /\ ptr' = [ptr EXCEPT ![p] = a] /\ length' = [length EXCEPT ![p] = n]

Mmap(o, p, a, n) == /\ Usable(o) /\ (windows => Opened(mmap_fd[o]))
                    /\ n > 0 /\ mapped[a] = 0
                    /\ mapped' = [mapped EXCEPT ![a] = n]
                    /\ BeginPtr(p, a, n)
                    /\ UNCHANGED <<fds, released, aborted>>

MovePtr(p, q) == /\ kept[p] = "idle" /\ kept[q] = "none" /\ Room
                 /\ kept' = [kept EXCEPT ![q] = "idle"]
                 /\ ptr' = [ptr EXCEPT ![q] = ptr[p], ![p] = Null]
                 /\ length' = [length EXCEPT ![q] = length[p], ![p] = 0]
                 /\ UNCHANGED <<fds, mapped, released, aborted>>

\* A mutant of AssignPtr: only the address is swapped with the argument.
AssignPtrOldLength(p, q, a) ==
  /\ kept[p] = "idle" /\ kept[q] = "idle" /\ kept[a] = "none" /\ Room /\ p # q
  /\ ptr' = [ptr EXCEPT ![p] = ptr[q], ![q] = Null, ![a] = ptr[p]]
  /\ length' = [length EXCEPT ![q] = 0, ![a] = length[q]]
  /\ kept' = [kept EXCEPT ![a] = "leave"]
  /\ UNCHANGED <<fds, mapped, released, aborted>>

AssignPtr(p, q, a) ==
  /\ kept[p] = "idle" /\ kept[q] = "idle" /\ kept[a] = "none" /\ Room /\ p # q
  /\ ptr' = [ptr EXCEPT ![p] = ptr[q], ![q] = Null, ![a] = ptr[p]]
  /\ length' = [length EXCEPT ![p] = length[q], ![q] = 0, ![a] = length[p]]
  /\ kept' = [kept EXCEPT ![a] = "leave"]
  /\ UNCHANGED <<fds, mapped, released, aborted>>

\* The size stays.
ReleasePtr(p) == /\ kept[p] = "idle" /\ ptr[p] # Null
                 /\ released' = released \cup {[at |-> ptr[p], size |-> mapped[ptr[p]]]}
                 /\ ptr' = [ptr EXCEPT ![p] = Null]
                 /\ UNCHANGED <<fds, length, kept, mapped, aborted>>

\* munmap(), which leaves what is beyond the size, and UnmapViewOfFile(), which needs none.
Unmap(a, n) == IF mapped[a] = 0 THEN aborted' = TRUE /\ UNCHANGED mapped
               ELSE /\ mapped' = [mapped EXCEPT ![a] = IF windows \/ n >= @ THEN 0 ELSE @ - n]
                    /\ UNCHANGED aborted

\* LowIo::Munmap() of a pointer that was released.
Munmap(r) == /\ r \in released
             /\ Unmap(r.at, r.size)
             /\ released' = released \ {r}
             /\ UNCHANGED <<fds, ptr, length, kept>>

DestroyPtr(p) == /\ kept[p] = "idle"
                 /\ kept' = [kept EXCEPT ![p] = "leave"]
                 /\ UNCHANGED <<fds, ptr, length, mapped, released, aborted>>

ResetPtr(p) == /\ kept[p] \in {"idle", "leave"} /\ ptr[p] # Null
               /\ Unmap(ptr[p], length[p])
               /\ kept' = [kept EXCEPT ![p] = IF @ = "idle" THEN "unmapped" ELSE "unmapped, leave"]
               /\ UNCHANGED <<fds, ptr, length, released>>

ForgetPtr(p) == /\ \/ kept[p] \in {"unmapped", "unmapped, leave"}
                   \/ kept[p] = "leave" /\ ptr[p] = Null
                /\ kept' = [kept EXCEPT ![p] = IF @ = "unmapped" THEN "idle" ELSE "none"]
                /\ ptr' = [ptr EXCEPT ![p] = Null] /\ length' = [length EXCEPT ![p] = 0]
                /\ UNCHANGED <<fds, mapped, released, aborted>>
-----------------------------------------------------------------------------
Program(d) == ProgramOpen(d) \/ ProgramClose(d)

Create(o) == \/ Construct(o)
             \/ \E d \in Descriptors :
                  \/ OpenStdOut(o, d) \/ ConstructOpen(o, d)
                  \/ \E own \in BOOLEAN : ConstructFrom(o, d, own)

Use(o) == \/ TryOpen(o)
          \/ \E x \in Objects : MoveCtor(o, x) \/ Swap(o, x) \/ \E a \in Objects : Assign(o, x, a)
          \/ \E next \in {"idle", "none"} : Reset(o, next)
          \/ PrepareMmap(o)
          \/ \E p \in Pointers, a \in Addresses, n \in 1..MaxSize : Mmap(o, p, a, n)

Advance(o) == CloseMapping(o) \/ ForgetMapping(o) \/ CloseFd(o) \/ Leave(o)

UsePtr(p) == \/ \E q \in Pointers : MovePtr(p, q) \/ \E a \in Pointers : AssignPtr(p, q, a)
             \/ ReleasePtr(p) \/ DestroyPtr(p) \/ ResetPtr(p) \/ ForgetPtr(p)

Next == \/ \E d \in Descriptors : Program(d)
        \/ \E o \in Objects : Create(o) \/ Use(o) \/ Advance(o)
        \/ \E p \in Pointers : UsePtr(p)
        \/ \E r \in released : Munmap(r)

Spec == Init /\ [][Next]_vars
=============================================================================
