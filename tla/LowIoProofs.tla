----------------------------- MODULE LowIoProofs -----------------------------
(***************************************************************************)
(* Descriptors and mappings have one owner each, for any number of objects, *)
(* descriptors and addresses, and however the threads interleave.           *)
(*                                                                         *)
(* The two halves of the module have an invariant each, FdInv and ViewInv,  *)
(* and each action works on one half only.  Both say first who owns what,   *)
(* one owner at most, without counting; the theorems count.                 *)
(***************************************************************************)
EXTENDS LowIoProps, FiniteSetTheorems, TLAPS

FdTypes ==
  /\ windows \in BOOLEAN
  /\ stage \in [Objects -> Stages] /\ after \in [Objects -> {"none", "idle"}]
  /\ fd \in [Objects -> Descriptors \cup {Invalid}] /\ owning \in [Objects -> BOOLEAN]
  /\ mmap_fd \in [Objects -> Descriptors \cup {Invalid, Null}]
  /\ table \in [Descriptors -> Kinds]
  /\ mine \subseteq Descriptors /\ stale \subseteq Objects /\ lost \subseteq Descriptors

\* What o will close.
Closes(o, d) == stage[o] \notin {"none", "closed"} /\ owning[o] /\ fd[o] = d
Unprepares(o, d) == stage[o] # "unprepared" /\ mmap_fd[o] = d
Ends(o, d) == Closes(o, d) \/ Unprepares(o, d)

\* One owner of an open descriptor and none of another.
OwnedOnce(d) ==
  /\ \A o, x \in Objects : Closes(o, d) /\ Closes(x, d) => o = x
  /\ \A o, x \in Objects : Unprepares(o, d) /\ Unprepares(x, d) => o = x
  /\ \A o, x \in Objects : Closes(o, d) => ~Unprepares(x, d)
  /\ \A o \in Objects : Ends(o, d) => Opened(d) /\ d \notin mine \cup lost
  /\ d \in mine \cup lost => Opened(d)
  /\ ~(d \in mine /\ d \in lost)
  /\ Opened(d) => d \in mine \cup lost \/ \E o \in Objects : Ends(o, d)

OneOwner == \A d \in Descriptors : OwnedOnce(d)

\* What is borrowed is the program's, or lost, so no object closes it.
Borrowed ==
  \A o \in Objects : stage[o] \notin {"none", "closed"} /\ ~owning[o] /\ fd[o] # Invalid
                       => fd[o] \in mine \cup lost

\* Where there is no object, or nothing left to close, the members say so.
Blank ==
  /\ \A o \in Objects : /\ stage[o] = "none" => fd[o] = Invalid
                        /\ stage[o] \in {"none", "closed"} => mmap_fd[o] = Invalid
  /\ \A o \in stale : stage[o] = "closed"

FdInv == FdTypes /\ OneOwner /\ Borrowed /\ Blank
-----------------------------------------------------------------------------
(* The system.                                                             *)

LEMMA FreshIsFree ==
  ASSUME NEW k, NEW d \in Fresh(k)
  PROVE  d \in Descriptors /\ ~Opened(d)
BY DEF Fresh

\* Nothing has to do with a descriptor that is not open, but what is closing it.
LEMMA FreeIsNobodys ==
  ASSUME FdInv, NEW d \in Descriptors, ~Opened(d)
  PROVE  /\ d \notin mine \cup lost
         /\ \A o \in Objects : ~Ends(o, d) /\ (stage[o] # "closed" => fd[o] # d)
<1>1. d \notin mine \cup lost /\ \A o \in Objects : ~Ends(o, d)
  BY DEF FdInv, OneOwner, OwnedOnce
<1>2. ASSUME NEW o \in Objects, stage[o] # "closed", fd[o] = d
      PROVE  FALSE
  <2>1. d # Invalid
    BY LowIoAssumption
  <2>2. stage[o] # "none"
    BY <1>2, <2>1 DEF FdInv, Blank
  <2>3. ~owning[o]
    BY <1>1, <1>2, <2>2 DEF Ends, Closes
  <2>4. QED BY <1>1, <1>2, <2>1, <2>2, <2>3 DEF FdInv, Borrowed
<1>3. QED BY <1>1, <1>2

\* The one who owns a descriptor is alone with it.
LEMMA OwnerIsAlone ==
  ASSUME FdInv, NEW d \in Descriptors, NEW o \in Objects, Ends(o, d)
  PROVE  /\ d \notin mine \cup lost /\ Opened(d)
         /\ \A x \in Objects \ {o} : ~Ends(x, d) /\ (stage[x] # "closed" => fd[x] # d)
         /\ Unprepares(o, d) /\ stage[o] # "closed" => fd[o] # d
<1>1. d \notin mine \cup lost /\ Opened(d) /\ \A x \in Objects \ {o} : ~Ends(x, d)
  BY DEF FdInv, OneOwner, OwnedOnce, Ends
<1>2. d # Invalid
  BY LowIoAssumption
<1>3. ASSUME NEW x \in Objects, stage[x] # "closed", fd[x] = d
      PROVE  Closes(x, d)
  <2>1. stage[x] # "none"
    BY <1>2, <1>3 DEF FdInv, Blank
  <2>2. owning[x]
    BY <1>1, <1>2, <1>3, <2>1 DEF FdInv, Borrowed
  <2>3. QED BY <1>3, <2>1, <2>2 DEF Closes
<1>4. ~(Closes(o, d) /\ Unprepares(o, d))
  BY DEF FdInv, OneOwner, OwnedOnce
<1>5. QED BY <1>1, <1>3, <1>4 DEF Ends
-----------------------------------------------------------------------------
(* The program.                                                            *)

\* Opening and closing a file without LowIo.
LEMMA ProgramStep ==
  ASSUME FdInv, NEW d \in Descriptors, Program(d)
  PROVE  FdInv'
<1>0. /\ stage' = stage /\ after' = after /\ fd' = fd /\ mmap_fd' = mmap_fd /\ owning' = owning
      /\ windows' = windows /\ lost' = lost /\ stale' \subseteq Objects
      /\ table' \in [Descriptors -> Kinds]
      /\ \/ /\ mine' = mine \cup {d} /\ table' = [table EXCEPT ![d] = "file"] /\ ~Opened(d)
            /\ stale' = stale
         \/ /\ mine' = mine \ {d} /\ table' = [table EXCEPT ![d] = "free"] /\ d \in mine
            /\ stale' = stale /\ \A o \in Objects : stage[o] # "none" => fd[o] # d
  <2>1. CASE ProgramOpen(d)
    BY <2>1, FreshIsFree DEF ProgramOpen, OpenFile, Enter, handles, FdInv, FdTypes, Kinds
  <2>2. CASE ProgramClose(d)
    <3>1. table' = [table EXCEPT ![d] = "free"]
      BY <2>2 DEF ProgramClose, Close, FdInv, FdTypes
    <3>2. QED BY <2>2, <3>1 DEF ProgramClose, Close, handles, FdInv, FdTypes, Kinds
  <2>3. QED BY <2>1, <2>2 DEF Program
<1>1. FdTypes'
  BY <1>0 DEF FdInv, FdTypes
<1>2. \A o \in Objects, e \in Descriptors :
        (Closes(o, e)' <=> Closes(o, e)) /\ (Unprepares(o, e)' <=> Unprepares(o, e)) /\ (Ends(o, e)' <=> Ends(o, e))
  BY <1>0 DEF Closes, Unprepares, Ends
<1>3. \A e \in Descriptors : /\ e # d => (Opened(e)' <=> Opened(e))
                             /\ (Opened(d)' <=> d \in mine')
  BY <1>0 DEF Opened, FdInv, FdTypes
<1>4. OneOwner'
  BY <1>0, <1>2, <1>3, FreeIsNobodys DEF OneOwner, OwnedOnce, FdInv
<1>5. Borrowed' /\ Blank'
  BY <1>0 DEF FdInv, Borrowed, Blank
<1>6. QED BY <1>1, <1>4, <1>5 DEF FdInv
-----------------------------------------------------------------------------
(* Construction and opening.                                               *)

LEMMA Opens ==
  ASSUME FdInv, NEW d \in Descriptors, NEW kind \in Kinds, d \in Fresh(0) \/ d \in Fresh(StdOut + 1),
         Enter(d, kind)
  PROVE  /\ table' = [table EXCEPT ![d] = kind] /\ table' \in [Descriptors -> Kinds]
         /\ ~Opened(d) /\ (kind # "free" => Opened(d)')
         /\ \A e \in Descriptors \ {d} : (Opened(e)' <=> Opened(e))
BY FreshIsFree DEF Enter, Opened, FdInv, FdTypes

\* A constructor takes over what was the program's or nobody's, or borrows it.
LEMMA CreateStep ==
  ASSUME FdInv, NEW o \in Objects, Create(o)
  PROVE  FdInv'
<1>1. PICK d \in Descriptors \cup {Invalid}, own \in BOOLEAN :
        /\ Begin(o, d, own)
        /\ \/ d = Invalid /\ own /\ UNCHANGED <<table, mine>>
           \/ /\ d \in Descriptors /\ own /\ mine' = mine
              /\ \E kind \in Kinds \ {"free"} :
                   (d \in Fresh(0) \/ d \in Fresh(StdOut + 1)) /\ Enter(d, kind)
           \/ /\ d \in mine /\ table' = table
              /\ IF own THEN mine' = mine \ {d} /\ \A x \in Objects : stage[x] # "none" => fd[x] # d
                 ELSE mine' = mine
  BY DEF Create, Construct, ConstructFrom, ConstructOpen, OpenFile, OpenStdOut, Kinds
<1>0. /\ stage[o] = "none" /\ stage' = [stage EXCEPT ![o] = "idle"]
      /\ fd' = [fd EXCEPT ![o] = d] /\ owning' = [owning EXCEPT ![o] = own]
      /\ windows' = windows /\ after' = after /\ mmap_fd' = mmap_fd
      /\ stale' = stale /\ lost' = lost
  BY <1>1 DEF Begin
<1>2. table' \in [Descriptors -> Kinds] /\ mine' \subseteq mine
  BY <1>1, Opens DEF FdInv, FdTypes
<1>3. FdTypes'
  BY <1>0, <1>2 DEF FdInv, FdTypes, Stages
<1>4. \A x \in Objects \ {o} : /\ stage'[x] = stage[x] /\ fd'[x] = fd[x] /\ owning'[x] = owning[x]
  BY <1>0 DEF FdInv, FdTypes
<1>5. stage'[o] = "idle" /\ fd'[o] = d /\ owning'[o] = own /\ mmap_fd[o] = Invalid
  BY <1>0 DEF FdInv, FdTypes, Blank
<1>6. \A e \in Descriptors :
        /\ \A x \in Objects \ {o} : /\ (Closes(x, e)' <=> Closes(x, e))
                                     /\ (Unprepares(x, e)' <=> Unprepares(x, e))
        /\ Closes(o, e)' <=> (own /\ d = e)
        /\ ~Closes(o, e) /\ ~Unprepares(o, e) /\ ~Unprepares(o, e)'
  BY <1>0, <1>4, <1>5, LowIoAssumption DEF Closes, Unprepares
<1>7. OneOwner'
  <2>1. CASE d = Invalid /\ own /\ UNCHANGED <<table, mine>>
    BY <1>0, <1>6, <2>1, LowIoAssumption DEF FdInv, OneOwner, OwnedOnce, Ends, Opened
  <2>2. CASE /\ d \in Descriptors /\ own /\ mine' = mine
             /\ \E kind \in Kinds \ {"free"} :
                  (d \in Fresh(0) \/ d \in Fresh(StdOut + 1)) /\ Enter(d, kind)
    <3>1. ~Opened(d) /\ Opened(d)' /\ \A e \in Descriptors \ {d} : (Opened(e)' <=> Opened(e))
      BY <2>2, Opens
    <3>2. d \notin mine \cup lost /\ \A x \in Objects : ~Ends(x, d)
      BY <2>2, <3>1, FreeIsNobodys
    <3>3. OwnedOnce(d)'
      BY <1>0, <1>6, <2>2, <3>1, <3>2 DEF OwnedOnce, Ends
    <3>4. ASSUME NEW e \in Descriptors \ {d} PROVE OwnedOnce(e)'
      <4>1. OwnedOnce(e)
        BY DEF FdInv, OneOwner
      <4>2. \A x \in Objects : (Closes(x, e)' <=> Closes(x, e)) /\ (Unprepares(x, e)' <=> Unprepares(x, e))
        BY <1>6, <2>2
      <4>3. QED BY <1>0, <2>2, <3>1, <4>1, <4>2 DEF OwnedOnce, Ends
    <3>5. QED BY <3>3, <3>4 DEF OneOwner
  <2>3. CASE /\ d \in mine /\ table' = table
             /\ IF own THEN mine' = mine \ {d} ELSE mine' = mine
    <3>1. d \in Descriptors
      BY <2>3 DEF FdInv, FdTypes
    <3>2. \A e \in Descriptors : (Opened(e)' <=> Opened(e))
      BY <2>3 DEF Opened
    <3>3. ASSUME NEW e \in Descriptors PROVE OwnedOnce(e)'
      <4>1. OwnedOnce(e) /\ OwnedOnce(d)
        BY <3>1 DEF FdInv, OneOwner
      <4>2. CASE own /\ e = d
        BY <1>0, <1>6, <2>3, <3>2, <4>1, <4>2 DEF OwnedOnce, Ends
      <4>3. CASE ~(own /\ e = d)
        <5>1. \A x \in Objects : (Closes(x, e)' <=> Closes(x, e)) /\ (Unprepares(x, e)' <=> Unprepares(x, e))
          BY <1>6, <4>3
        <5>2. e \in mine' <=> e \in mine
          BY <2>3, <4>3
        <5>3. QED BY <1>0, <3>2, <4>1, <5>1, <5>2 DEF OwnedOnce, Ends
      <4>4. QED BY <4>2, <4>3
    <3>4. QED BY <3>3 DEF OneOwner
  <2>4. QED BY <1>1, <2>1, <2>2, <2>3
<1>8. Borrowed'
  <2>1. \A x \in Objects \ {o} : mine' = mine \ {fd[x]} => stage[x] = "none" \/ fd[x] \notin mine \/ mine' = mine \/ fd[x] # d
    BY <1>1
  <2>2. QED BY <1>0, <1>1, <1>4, <1>5, <2>1, LowIoAssumption DEF FdInv, Borrowed, FdTypes
<1>9. Blank'
  BY <1>0, <1>4, <1>5 DEF FdInv, Blank, FdTypes
<1>10. QED BY <1>3, <1>7, <1>8, <1>9 DEF FdInv

\* What an owner overwrites is lost; what a borrower overwrites is the program's still.
LEMMA TryOpenStep ==
  ASSUME FdInv, NEW o \in Objects, TryOpen(o)
  PROVE  FdInv'
<1>0. /\ stage[o] = "idle" /\ stage' = stage /\ after' = after /\ owning' = owning
      /\ windows' = windows /\ mmap_fd' = mmap_fd /\ mine' = mine /\ stale' = stale
  BY DEF TryOpen
<1>1. PICK d \in Descriptors \cup {Invalid} :
        /\ fd' = [fd EXCEPT ![o] = d]
        /\ \/ /\ d \in Descriptors /\ OpenFile(d)
              /\ lost' = lost \cup (IF ~owning[o] THEN {d} ELSE {fd[o]} \ {Invalid})
           \/ /\ d = Invalid /\ table' = table
              /\ lost' = lost \cup (IF ~owning[o] THEN {} ELSE {fd[o]} \ {Invalid})
  BY DEF TryOpen
<1>2. /\ table' \in [Descriptors -> Kinds] /\ lost' \subseteq Descriptors
      /\ d \in Descriptors => ~Opened(d) /\ Opened(d)'
      /\ \A e \in Descriptors \ {d} : (Opened(e)' <=> Opened(e))
  <2>1. {fd[o]} \ {Invalid} \subseteq Descriptors /\ lost \subseteq Descriptors
    BY DEF FdInv, FdTypes
  <2>2. CASE d \in Descriptors /\ OpenFile(d)
    BY <1>1, <2>1, <2>2, Opens, LowIoAssumption DEF OpenFile, Kinds
  <2>3. CASE d = Invalid /\ table' = table
    BY <1>1, <2>1, <2>3, LowIoAssumption DEF FdInv, FdTypes, Opened
  <2>4. QED BY <1>1, <2>2, <2>3
<1>3. FdTypes'
  BY <1>0, <1>1, <1>2 DEF FdInv, FdTypes
<1>4. fd'[o] = d /\ \A x \in Objects \ {o} : fd'[x] = fd[x]
  BY <1>1 DEF FdInv, FdTypes
<1>5. \A e \in Descriptors :
        /\ \A x \in Objects \ {o} : (Closes(x, e)' <=> Closes(x, e))
        /\ \A x \in Objects : (Unprepares(x, e)' <=> Unprepares(x, e))
        /\ Closes(o, e)' <=> (owning[o] /\ d = e)
        /\ Closes(o, e) <=> (owning[o] /\ fd[o] = e)
  BY <1>0, <1>4 DEF Closes, Unprepares
<1>6. d \in Descriptors => d \notin mine \cup lost /\ \A x \in Objects : ~Ends(x, d)
  BY <1>2, FreeIsNobodys
<1>7. OneOwner'
  <2>1. CASE owning[o]
    <3>1. lost' = lost \cup ({fd[o]} \ {Invalid})
      BY <1>1, <2>1
    <3>2. ASSUME NEW e \in Descriptors PROVE OwnedOnce(e)'
      <4>0. OwnedOnce(e) /\ e # Invalid /\ (d \in Descriptors => fd[o] # d)
        BY <1>0, <1>2, FreeIsNobodys, LowIoAssumption DEF FdInv, OneOwner
      <4>1. CASE e = d
        BY <1>0, <1>2, <1>5, <1>6, <2>1, <3>1, <4>0, <4>1 DEF OwnedOnce, Ends
      <4>2. CASE e # d /\ e = fd[o]
        BY <1>0, <1>2, <1>5, <2>1, <3>1, <4>0, <4>2 DEF OwnedOnce, Ends
      <4>3. CASE e # d /\ e # fd[o]
        <5>1. \A x \in Objects : (Closes(x, e)' <=> Closes(x, e)) /\ (Unprepares(x, e)' <=> Unprepares(x, e))
          BY <1>5, <4>3
        <5>2. QED BY <1>0, <1>2, <3>1, <4>0, <4>3, <5>1 DEF OwnedOnce, Ends
      <4>4. QED BY <4>1, <4>2, <4>3
    <3>3. QED BY <3>2 DEF OneOwner
  <2>2. CASE ~owning[o]
    <3>1. \A e \in Descriptors : e \in lost' <=> e \in lost \/ e = d
      BY <1>1, <2>2, LowIoAssumption
    <3>2. QED BY <1>0, <1>2, <1>5, <1>6, <2>2, <3>1 DEF FdInv, OneOwner, OwnedOnce, Ends
  <2>3. QED BY <2>1, <2>2
<1>8. Borrowed'
  BY <1>0, <1>1, <1>4 DEF FdInv, Borrowed
<1>9. Blank'
  BY <1>0, <1>4 DEF FdInv, Blank
<1>10. QED BY <1>3, <1>7, <1>8, <1>9 DEF FdInv

\* A mapping that is overwritten is lost.
LEMMA PrepareMmapStep ==
  ASSUME FdInv, NEW o \in Objects, PrepareMmap(o)
  PROVE  FdInv'
<1>0. /\ stage[o] = "idle" /\ stage' = stage /\ after' = after /\ owning' = owning
      /\ windows' = windows /\ fd' = fd /\ mine' = mine /\ stale' = stale
      /\ lost' = lost \cup ({mmap_fd[o]} \ {Invalid, Null})
  BY DEF PrepareMmap
<1>1. PICK d \in Descriptors \cup {Null} :
        /\ mmap_fd' = [mmap_fd EXCEPT ![o] = d]
        /\ \/ d \in Fresh(0) /\ Enter(d, "mapping")
           \/ d = Null /\ table' = table
  BY FreshIsFree DEF PrepareMmap
<1>2. /\ table' \in [Descriptors -> Kinds] /\ lost' \subseteq Descriptors
      /\ d \in Descriptors => ~Opened(d) /\ Opened(d)'
      /\ \A e \in Descriptors \ {d} : (Opened(e)' <=> Opened(e))
  <2>1. lost' \subseteq Descriptors
    BY <1>0 DEF FdInv, FdTypes
  <2>2. CASE d \in Fresh(0) /\ Enter(d, "mapping")
    BY <2>1, <2>2, Opens, FreshIsFree DEF Kinds
  <2>3. CASE d = Null /\ table' = table
    BY <2>1, <2>3, LowIoAssumption DEF FdInv, FdTypes, Opened
  <2>4. QED BY <1>1, <2>2, <2>3
<1>3. FdTypes'
  BY <1>0, <1>1, <1>2 DEF FdInv, FdTypes
<1>4. mmap_fd'[o] = d /\ \A x \in Objects \ {o} : mmap_fd'[x] = mmap_fd[x]
  BY <1>1 DEF FdInv, FdTypes
<1>5. \A e \in Descriptors :
        /\ \A x \in Objects \ {o} : (Unprepares(x, e)' <=> Unprepares(x, e))
        /\ \A x \in Objects : (Closes(x, e)' <=> Closes(x, e))
        /\ Unprepares(o, e)' <=> (d = e)
        /\ Unprepares(o, e) <=> (mmap_fd[o] = e)
  BY <1>0, <1>4 DEF Closes, Unprepares
<1>6. d \in Descriptors => d \notin mine \cup lost /\ \A x \in Objects : ~Ends(x, d)
  BY <1>2, FreeIsNobodys
<1>7. \A e \in Descriptors : e \in lost' <=> e \in lost \/ e = mmap_fd[o]
  BY <1>0, LowIoAssumption
<1>8. ASSUME NEW e \in Descriptors PROVE OwnedOnce(e)'
  <2>0. OwnedOnce(e)
    BY DEF FdInv, OneOwner
  <2>1. CASE e = d
    BY <1>0, <1>2, <1>5, <1>6, <1>7, <2>0, <2>1 DEF OwnedOnce, Ends
  <2>2. CASE e # d /\ e = mmap_fd[o]
    BY <1>0, <1>2, <1>5, <1>7, <2>0, <2>2 DEF OwnedOnce, Ends
  <2>3. CASE e # d /\ e # mmap_fd[o]
    <3>1. \A x \in Objects : (Closes(x, e)' <=> Closes(x, e)) /\ (Unprepares(x, e)' <=> Unprepares(x, e))
      BY <1>5, <2>3
    <3>2. QED BY <1>0, <1>2, <1>7, <2>0, <2>3, <3>1 DEF OwnedOnce, Ends
  <2>4. QED BY <2>1, <2>2, <2>3
<1>9. Borrowed' /\ Blank'
  BY <1>0, <1>4, <1>7 DEF FdInv, Borrowed, Blank
<1>10. QED BY <1>3, <1>8, <1>9 DEF FdInv, OneOwner
-----------------------------------------------------------------------------
(* Moving, and the calls that only change the stage.                        *)

\* Each descriptor keeps its owner, which may be another object than before.
LEMMA OwnersMoved ==
  ASSUME OneOwner, NEW e \in Descriptors,
         table' = table, mine' = mine, lost' = lost,
         NEW f \in [Objects -> Objects], NEW g \in [Objects -> Objects],
         \A x \in Objects : (Closes(x, e)' => Closes(f[x], e)) /\ (Closes(x, e) => Closes(g[x], e)'),
         \A x \in Objects : (Unprepares(x, e)' => Unprepares(f[x], e)) /\ (Unprepares(x, e) => Unprepares(g[x], e)'),
         \A x, y \in Objects : Closes(x, e)' /\ Closes(y, e)' /\ f[x] = f[y] => x = y,
         \A x, y \in Objects : Unprepares(x, e)' /\ Unprepares(y, e)' /\ f[x] = f[y] => x = y
  PROVE  OwnedOnce(e)'
<1>1. OwnedOnce(e)
  BY DEF OneOwner
<1>2. Opened(e)' <=> Opened(e)
  BY DEF Opened
<1>3. \A o, x \in Objects : Closes(o, e)' /\ Closes(x, e)' => o = x
  BY <1>1 DEF OwnedOnce
<1>4. \A o, x \in Objects : Unprepares(o, e)' /\ Unprepares(x, e)' => o = x
  BY <1>1 DEF OwnedOnce
<1>5. \A o, x \in Objects : Closes(o, e)' => ~Unprepares(x, e)'
  BY <1>1 DEF OwnedOnce
<1>6. \A o \in Objects : Ends(o, e)' => Opened(e) /\ e \notin mine \cup lost
  BY <1>1 DEF OwnedOnce, Ends
<1>7. Opened(e) => e \in mine \cup lost \/ \E o \in Objects : Ends(o, e)'
  BY <1>1 DEF OwnedOnce, Ends
<1>8. QED BY <1>1, <1>2, <1>3, <1>4, <1>5, <1>6, <1>7 DEF OwnedOnce

\* No owner changes.
LEMMA OwnersStay ==
  ASSUME OneOwner, table' = table, mine' = mine, lost' = lost,
         \A e \in Descriptors, x \in Objects :
           (Closes(x, e)' <=> Closes(x, e)) /\ (Unprepares(x, e)' <=> Unprepares(x, e))
  PROVE  OneOwner'
BY DEF OneOwner, OwnedOnce, Ends, Opened

\* The descriptors go to the new object.
LEMMA MoveCtorStep ==
  ASSUME FdInv, NEW o \in Objects, NEW x \in Objects, MoveCtor(o, x)
  PROVE  FdInv'
<1>0. /\ stage[o] = "idle" /\ stage[x] = "none" /\ stage' = [stage EXCEPT ![x] = "idle"]
      /\ fd' = [fd EXCEPT ![x] = fd[o], ![o] = Invalid]
      /\ mmap_fd' = [mmap_fd EXCEPT ![x] = mmap_fd[o], ![o] = Invalid]
      /\ owning' = [owning EXCEPT ![x] = owning[o]]
      /\ windows' = windows /\ after' = after /\ table' = table /\ mine' = mine
      /\ stale' = stale /\ lost' = lost
  BY DEF MoveCtor
<1>1. FdTypes'
  BY <1>0 DEF FdInv, FdTypes, Stages
<1>2. /\ o # x /\ stage'[x] = "idle" /\ fd'[x] = fd[o] /\ mmap_fd'[x] = mmap_fd[o]
      /\ owning'[x] = owning[o] /\ stage'[o] = "idle" /\ fd'[o] = Invalid /\ mmap_fd'[o] = Invalid
      /\ \A y \in Objects \ {o, x} : /\ stage'[y] = stage[y] /\ fd'[y] = fd[y]
                                     /\ mmap_fd'[y] = mmap_fd[y] /\ owning'[y] = owning[y]
      /\ fd[x] = Invalid /\ mmap_fd[x] = Invalid
  BY <1>0 DEF FdInv, FdTypes, Blank
<1>3. ASSUME NEW e \in Descriptors PROVE OwnedOnce(e)'
  <2> DEFINE f == [y \in Objects |-> IF y = x THEN o ELSE IF y = o THEN x ELSE y]
  <2>0. /\ f \in [Objects -> Objects] /\ f[x] = o /\ f[o] = x
        /\ \A y \in Objects \ {o, x} : f[y] = y
    BY <1>2
  <2> HIDE DEF f
  <2>1. e # Invalid
    BY LowIoAssumption
  <2>2. /\ ~Closes(o, e)' /\ ~Unprepares(o, e)' /\ ~Closes(x, e) /\ ~Unprepares(x, e)
        /\ (Closes(x, e)' <=> Closes(o, e)) /\ (Unprepares(x, e)' <=> Unprepares(o, e))
    BY <1>0, <1>2, <2>1 DEF Closes, Unprepares
  <2>3. \A y \in Objects \ {o, x} :
          (Closes(y, e)' <=> Closes(y, e)) /\ (Unprepares(y, e)' <=> Unprepares(y, e))
    BY <1>2 DEF Closes, Unprepares
  <2>4. \A y \in Objects : /\ (Closes(y, e)' => Closes(f[y], e)) /\ (Closes(y, e) => Closes(f[y], e)')
                           /\ (Unprepares(y, e)' => Unprepares(f[y], e))
                           /\ (Unprepares(y, e) => Unprepares(f[y], e)')
    BY <2>0, <2>2, <2>3
  <2>5. \A y, z \in Objects : f[y] = f[z] => y = z
    BY <1>2, <2>0
  <2>6. OneOwner
    BY DEF FdInv
  <2>7. QED BY <1>0, <2>0, <2>4, <2>5, <2>6, OwnersMoved
<1>4. Borrowed'
  <2>1. \A y \in Objects : stage[y] \notin {"none", "closed"} /\ ~owning[y] /\ fd[y] # Invalid
                           => fd[y] \in mine \cup lost
    BY DEF FdInv, Borrowed
  <2>2. \A y \in Objects \ {o, x} :
          stage'[y] \notin {"none", "closed"} /\ ~owning'[y] /\ fd'[y] # Invalid
            => fd'[y] \in mine \cup lost
    BY <1>2, <2>1
  <2>3. \A y \in {o, x} : ~owning'[y] /\ fd'[y] # Invalid => fd'[y] \in mine \cup lost
    BY <1>0, <1>2, <2>1
  <2>4. QED BY <1>0, <2>2, <2>3 DEF Borrowed
<1>5. Blank'
  <2>1. \A y \in Objects \ {o, x} :
          /\ stage'[y] = "none" => fd'[y] = Invalid
          /\ stage'[y] \in {"none", "closed"} => mmap_fd'[y] = Invalid
    BY <1>2 DEF FdInv, Blank
  <2>2. \A y \in {o, x} : stage'[y] \notin {"none", "closed"}
    BY <1>2
  <2>3. \A y \in stale : y \notin {o, x} /\ y \in Objects /\ stage[y] = "closed"
    BY <1>0 DEF FdInv, Blank, FdTypes
  <2>4. \A y \in stale' : stage'[y] = "closed"
    BY <1>0, <1>2, <2>3
  <2>5. \A y \in Objects : /\ stage'[y] = "none" => fd'[y] = Invalid
                           /\ stage'[y] \in {"none", "closed"} => mmap_fd'[y] = Invalid
    <3> SUFFICES ASSUME NEW y \in Objects
                 PROVE  /\ stage'[y] = "none" => fd'[y] = Invalid
                        /\ stage'[y] \in {"none", "closed"} => mmap_fd'[y] = Invalid
      OBVIOUS
    <3>1. CASE y \in {o, x}
      <4>1. stage'[y] \notin {"none", "closed"}
        BY <2>2, <3>1
      <4>2. QED BY <4>1
    <3>2. CASE y \notin {o, x}
      BY <2>1, <3>2
    <3>3. QED BY <3>1, <3>2
  <2>6. QED BY <2>4, <2>5 DEF Blank
<1>6. QED BY <1>1, <1>3, <1>4, <1>5 DEF FdInv, OneOwner

\* Each of the two gets what the other had.
LEMMA SwapStep ==
  ASSUME FdInv, NEW o \in Objects, NEW x \in Objects, Swap(o, x)
  PROVE  FdInv'
<1>0. /\ stage[o] = "idle" /\ stage[x] = "idle" /\ o # x /\ stage' = stage
      /\ fd' = [fd EXCEPT ![o] = fd[x], ![x] = fd[o]]
      /\ mmap_fd' = [mmap_fd EXCEPT ![o] = mmap_fd[x], ![x] = mmap_fd[o]]
      /\ owning' = [owning EXCEPT ![o] = owning[x], ![x] = owning[o]]
      /\ windows' = windows /\ after' = after /\ table' = table /\ mine' = mine
      /\ stale' = stale /\ lost' = lost
  BY DEF Swap, Exchanged
<1>1. FdTypes'
  BY <1>0 DEF FdInv, FdTypes
<1>2. /\ fd'[x] = fd[o] /\ mmap_fd'[x] = mmap_fd[o] /\ owning'[x] = owning[o]
      /\ fd'[o] = fd[x] /\ mmap_fd'[o] = mmap_fd[x] /\ owning'[o] = owning[x]
      /\ \A y \in Objects \ {o, x} : /\ fd'[y] = fd[y] /\ mmap_fd'[y] = mmap_fd[y]
                                     /\ owning'[y] = owning[y]
  BY <1>0 DEF FdInv, FdTypes
<1>3. ASSUME NEW e \in Descriptors PROVE OwnedOnce(e)'
  <2> DEFINE f == [y \in Objects |-> IF y = x THEN o ELSE IF y = o THEN x ELSE y]
  <2>0. /\ f \in [Objects -> Objects] /\ f[x] = o /\ f[o] = x
        /\ \A y \in Objects \ {o, x} : f[y] = y
    BY <1>0
  <2> HIDE DEF f
  <2>1. /\ (Closes(x, e)' <=> Closes(o, e)) /\ (Unprepares(x, e)' <=> Unprepares(o, e))
        /\ (Closes(o, e)' <=> Closes(x, e)) /\ (Unprepares(o, e)' <=> Unprepares(x, e))
    BY <1>0, <1>2 DEF Closes, Unprepares
  <2>2. \A y \in Objects \ {o, x} :
          (Closes(y, e)' <=> Closes(y, e)) /\ (Unprepares(y, e)' <=> Unprepares(y, e))
    BY <1>0, <1>2 DEF Closes, Unprepares
  <2>3. \A y \in Objects : /\ (Closes(y, e)' => Closes(f[y], e)) /\ (Closes(y, e) => Closes(f[y], e)')
                           /\ (Unprepares(y, e)' => Unprepares(f[y], e))
                           /\ (Unprepares(y, e) => Unprepares(f[y], e)')
    BY <2>0, <2>1, <2>2
  <2>4. \A y, z \in Objects : f[y] = f[z] => y = z
    BY <1>0, <2>0
  <2>5. OneOwner
    BY DEF FdInv
  <2>6. QED BY <1>0, <2>0, <2>3, <2>4, <2>5, OwnersMoved
<1>4. Borrowed'
  <2>1. \A y \in Objects : stage[y] \notin {"none", "closed"} /\ ~owning[y] /\ fd[y] # Invalid
                           => fd[y] \in mine \cup lost
    BY DEF FdInv, Borrowed
  <2>2. \A y \in Objects \ {o, x} :
          stage'[y] \notin {"none", "closed"} /\ ~owning'[y] /\ fd'[y] # Invalid
            => fd'[y] \in mine \cup lost
    BY <1>0, <1>2, <2>1
  <2>3. \A y \in {o, x} : ~owning'[y] /\ fd'[y] # Invalid => fd'[y] \in mine \cup lost
    BY <1>0, <1>2, <2>1
  <2>4. QED BY <1>0, <2>2, <2>3 DEF Borrowed
<1>5. Blank'
  <2>1. \A y \in Objects \ {o, x} :
          /\ stage[y] = "none" => fd'[y] = Invalid
          /\ stage[y] \in {"none", "closed"} => mmap_fd'[y] = Invalid
    BY <1>2 DEF FdInv, Blank
  <2>2. \A y \in Objects :
          /\ stage[y] = "none" => fd'[y] = Invalid
          /\ stage[y] \in {"none", "closed"} => mmap_fd'[y] = Invalid
    BY <1>0, <2>1
  <2>3. \A y \in stale : stage[y] = "closed"
    BY DEF FdInv, Blank
  <2>4. QED BY <1>0, <2>2, <2>3 DEF Blank
<1>6. QED BY <1>1, <1>3, <1>4, <1>5 DEF FdInv, OneOwner

\* What the assigned object had goes to the argument, which will close it.
LEMMA AssignStep ==
  ASSUME FdInv, NEW o \in Objects, NEW x \in Objects, NEW a \in Objects, Assign(o, x, a)
  PROVE  FdInv'
<1>0. /\ stage[o] = "idle" /\ stage[x] = "idle" /\ stage[a] = "none" /\ o # x
      /\ stage' = [stage EXCEPT ![a] = "reset"]
      /\ after' = [after EXCEPT ![a] = "none"]
      /\ fd' = [fd EXCEPT ![o] = fd[x], ![x] = Invalid, ![a] = fd[o]]
      /\ mmap_fd' = [mmap_fd EXCEPT ![o] = mmap_fd[x], ![x] = Invalid, ![a] = mmap_fd[o]]
      /\ owning' = [owning EXCEPT ![o] = owning[x], ![a] = owning[o]]
      /\ windows' = windows /\ table' = table /\ mine' = mine
      /\ stale' = stale /\ lost' = lost
  BY DEF Assign
<1>1. FdTypes'
  BY <1>0 DEF FdInv, FdTypes, Stages
<1>2. /\ o # a /\ x # a /\ o # x
      /\ stage'[a] = "reset" /\ stage'[o] = "idle" /\ stage'[x] = "idle"
      /\ fd'[o] = fd[x] /\ mmap_fd'[o] = mmap_fd[x] /\ owning'[o] = owning[x]
      /\ fd'[x] = Invalid /\ mmap_fd'[x] = Invalid
      /\ fd'[a] = fd[o] /\ mmap_fd'[a] = mmap_fd[o] /\ owning'[a] = owning[o]
      /\ \A y \in Objects \ {o, x, a} : /\ stage'[y] = stage[y] /\ fd'[y] = fd[y]
                                        /\ mmap_fd'[y] = mmap_fd[y] /\ owning'[y] = owning[y]
      /\ fd[a] = Invalid /\ mmap_fd[a] = Invalid
  BY <1>0 DEF FdInv, FdTypes, Blank
<1>3. ASSUME NEW e \in Descriptors PROVE OwnedOnce(e)'
  <2> DEFINE f == [y \in Objects |-> IF y = o THEN x ELSE IF y = a THEN o ELSE IF y = x THEN a ELSE y]
             g == [y \in Objects |-> IF y = x THEN o ELSE IF y = o THEN a ELSE IF y = a THEN x ELSE y]
  <2>0. /\ f \in [Objects -> Objects] /\ f[o] = x /\ f[a] = o /\ f[x] = a
        /\ \A y \in Objects \ {o, x, a} : f[y] = y
        /\ g \in [Objects -> Objects] /\ g[x] = o /\ g[o] = a /\ g[a] = x
        /\ \A y \in Objects \ {o, x, a} : g[y] = y
    BY <1>2
  <2> HIDE DEF f, g
  <2>1. e # Invalid
    BY LowIoAssumption
  <2>2. /\ ~Closes(x, e)' /\ ~Unprepares(x, e)' /\ ~Closes(a, e) /\ ~Unprepares(a, e)
        /\ (Closes(o, e)' <=> Closes(x, e)) /\ (Unprepares(o, e)' <=> Unprepares(x, e))
        /\ (Closes(a, e)' <=> Closes(o, e)) /\ (Unprepares(a, e)' <=> Unprepares(o, e))
    BY <1>0, <1>2, <2>1 DEF Closes, Unprepares
  <2>3. \A y \in Objects \ {o, x, a} :
          (Closes(y, e)' <=> Closes(y, e)) /\ (Unprepares(y, e)' <=> Unprepares(y, e))
    BY <1>2 DEF Closes, Unprepares
  <2>4. \A y \in Objects : /\ (Closes(y, e)' => Closes(f[y], e)) /\ (Closes(y, e) => Closes(g[y], e)')
                           /\ (Unprepares(y, e)' => Unprepares(f[y], e))
                           /\ (Unprepares(y, e) => Unprepares(g[y], e)')
    BY <2>0, <2>2, <2>3
  <2>5. \A y, z \in Objects : f[y] = f[z] => y = z
    BY <1>2, <2>0
  <2>6. OneOwner
    BY DEF FdInv
  <2>7. QED BY <1>0, <2>0, <2>4, <2>5, <2>6, OwnersMoved
<1>4. Borrowed'
  <2>1. \A y \in Objects : stage[y] \notin {"none", "closed"} /\ ~owning[y] /\ fd[y] # Invalid
                           => fd[y] \in mine \cup lost
    BY DEF FdInv, Borrowed
  <2>2. \A y \in Objects \ {o, x, a} :
          stage'[y] \notin {"none", "closed"} /\ ~owning'[y] /\ fd'[y] # Invalid
            => fd'[y] \in mine \cup lost
    BY <1>2, <2>1
  <2>3. \A y \in {o, x, a} : ~owning'[y] /\ fd'[y] # Invalid => fd'[y] \in mine \cup lost
    BY <1>0, <1>2, <2>1
  <2>4. QED BY <1>0, <2>2, <2>3 DEF Borrowed
<1>5. Blank'
  <2>1. \A y \in Objects \ {o, x, a} :
          /\ stage'[y] = "none" => fd'[y] = Invalid
          /\ stage'[y] \in {"none", "closed"} => mmap_fd'[y] = Invalid
    BY <1>2 DEF FdInv, Blank
  <2>2. \A y \in {o, x, a} : stage'[y] \notin {"none", "closed"}
    BY <1>2
  <2>3. \A y \in stale : y \notin {o, x, a} /\ y \in Objects /\ stage[y] = "closed"
    BY <1>0 DEF FdInv, Blank, FdTypes
  <2>4. \A y \in stale' : stage'[y] = "closed"
    BY <1>0, <1>2, <2>3
  <2>5. \A y \in Objects : /\ stage'[y] = "none" => fd'[y] = Invalid
                           /\ stage'[y] \in {"none", "closed"} => mmap_fd'[y] = Invalid
    <3> SUFFICES ASSUME NEW y \in Objects
                 PROVE  /\ stage'[y] = "none" => fd'[y] = Invalid
                        /\ stage'[y] \in {"none", "closed"} => mmap_fd'[y] = Invalid
      OBVIOUS
    <3>1. CASE y \in {o, x, a}
      <4>1. stage'[y] \notin {"none", "closed"}
        BY <2>2, <3>1
      <4>2. QED BY <4>1
    <3>2. CASE y \notin {o, x, a}
      BY <2>1, <3>2
    <3>3. QED BY <3>1, <3>2
  <2>6. QED BY <2>4, <2>5 DEF Blank
<1>6. QED BY <1>1, <1>3, <1>4, <1>5 DEF FdInv, OneOwner
-----------------------------------------------------------------------------
(* Reset() and the destructor.                                             *)

\* Nothing is closed yet.
LEMMA ResetStep ==
  ASSUME FdInv, NEW o \in Objects, NEW next \in {"idle", "none"}, Reset(o, next)
  PROVE  FdInv'
<1>0. /\ stage[o] = "idle" /\ stage' = [stage EXCEPT ![o] = "reset"]
      /\ after' = [after EXCEPT ![o] = next] /\ windows' = windows
      /\ fd' = fd /\ mmap_fd' = mmap_fd /\ owning' = owning
      /\ table' = table /\ mine' = mine /\ stale' = stale /\ lost' = lost
  BY DEF Reset, handles
<1>1. FdTypes'
  BY <1>0 DEF FdInv, FdTypes, Stages
<1>2. stage'[o] = "reset" /\ \A x \in Objects \ {o} : stage'[x] = stage[x]
  BY <1>0 DEF FdInv, FdTypes
<1>3. \A e \in Descriptors, x \in Objects :
        (Closes(x, e)' <=> Closes(x, e)) /\ (Unprepares(x, e)' <=> Unprepares(x, e))
  BY <1>0, <1>2 DEF Closes, Unprepares
<1>4. OneOwner'
  BY <1>0, <1>3, OwnersStay DEF FdInv
<1>5. Borrowed' /\ Blank'
  BY <1>0, <1>2 DEF FdInv, Borrowed, Blank, FdTypes
<1>6. QED BY <1>1, <1>4, <1>5 DEF FdInv

\* What o owned is closed: the number may be given out again.
LEMMA ClosedIsFree ==
  ASSUME FdInv, NEW o \in Objects, NEW d \in Descriptors, Ends(o, d),
         stage[o] = "reset", NEW s \in {"closed", "unprepared"},
         stage' = [stage EXCEPT ![o] = s],
         Closes(o, d) => s = "closed" /\ mmap_fd[o] = Invalid,
         Unprepares(o, d) => s = "unprepared",
         Close(d), fd' = fd, mmap_fd' = mmap_fd, owning' = owning, after' = after,
         windows' = windows, mine' = mine, lost' = lost
  PROVE  FdInv'
<1>1. /\ d \notin mine \cup lost /\ Opened(d)
      /\ \A x \in Objects \ {o} : ~Ends(x, d) /\ (stage[x] # "closed" => fd[x] # d)
      /\ Unprepares(o, d) => fd[o] # d
  BY OwnerIsAlone
<1>2. /\ table' = [table EXCEPT ![d] = "free"] /\ ~Opened(d)'
      /\ \A e \in Descriptors \ {d} : (Opened(e)' <=> Opened(e))
  <2>1. table' = [table EXCEPT ![d] = "free"]
    BY DEF Close, FdInv, FdTypes
  <2>2. QED BY <2>1 DEF Opened, FdInv, FdTypes
<1>3. stage'[o] = s /\ \A x \in Objects \ {o} : stage'[x] = stage[x]
  BY DEF FdInv, FdTypes
<1>4. stale' = stale \cup {x \in Objects : fd[x] = d /\ stage[x] # "none"}
  BY DEF Close
<1>5. FdTypes'
  BY <1>2, <1>4 DEF FdInv, FdTypes, Stages, Kinds
<1>6. \A x \in Objects \ {o}, e \in Descriptors :
        (Closes(x, e)' <=> Closes(x, e)) /\ (Unprepares(x, e)' <=> Unprepares(x, e))
  BY <1>3 DEF Closes, Unprepares
<1>7. /\ ~Closes(o, d)' /\ ~Unprepares(o, d)'
      /\ \A e \in Descriptors \ {d} :
           (Closes(o, e)' <=> Closes(o, e)) /\ (Unprepares(o, e)' <=> Unprepares(o, e))
  <2>1. CASE s = "closed"
    <3>1. Closes(o, d) /\ fd[o] = d /\ mmap_fd[o] = Invalid
      BY <2>1 DEF Ends, Closes
    <3>2. QED BY <1>3, <2>1, <3>1, LowIoAssumption DEF Closes, Unprepares
  <2>2. CASE s = "unprepared"
    <3>1. Unprepares(o, d) /\ mmap_fd[o] = d /\ fd[o] # d
      BY <1>1, <2>2 DEF Ends, Unprepares
    <3>2. QED BY <1>3, <2>2, <3>1 DEF Closes, Unprepares
  <2>3. QED BY <2>1, <2>2
<1>8. ASSUME NEW e \in Descriptors PROVE OwnedOnce(e)'
  <2>0. OwnedOnce(e)
    BY DEF FdInv, OneOwner
  <2>1. CASE e = d
    <3>1. \A x \in Objects : ~Closes(x, e)' /\ ~Unprepares(x, e)'
      BY <1>1, <1>6, <1>7, <2>1 DEF Ends
    <3>2. QED BY <1>1, <1>2, <2>1, <3>1 DEF OwnedOnce, Ends
  <2>2. CASE e # d
    <3>1. \A x \in Objects : (Closes(x, e)' <=> Closes(x, e)) /\ (Unprepares(x, e)' <=> Unprepares(x, e))
      BY <1>6, <1>7, <2>2
    <3>2. QED BY <1>2, <2>0, <2>2, <3>1 DEF OwnedOnce, Ends
  <2>3. QED BY <2>1, <2>2
<1>9. Borrowed'
  BY <1>3 DEF FdInv, Borrowed
<1>10. Blank'
  <2>1. \A x \in Objects : stage'[x] = "none" => fd'[x] = Invalid
    BY <1>3 DEF FdInv, Blank
  <2>2. \A x \in Objects : stage'[x] \in {"none", "closed"} => mmap_fd'[x] = Invalid
    <3>1. s = "closed" => mmap_fd[o] = Invalid
      BY DEF Ends
    <3>2. QED BY <1>3, <3>1 DEF FdInv, Blank
  <2>3. ASSUME NEW x \in stale' PROVE stage'[x] = "closed"
    <3>1. CASE x \in stale
      <4>1. stage[x] = "closed" /\ x # o /\ x \in Objects
        BY <3>1 DEF FdInv, Blank, FdTypes
      <4>2. QED BY <1>3, <4>1
    <3>2. CASE x \in Objects /\ fd[x] = d /\ x # o
      BY <1>1, <1>3, <3>2
    <3>3. CASE x = o /\ fd[o] = d
      <4>1. ~Unprepares(o, d)
        BY <1>1, <3>3
      <4>2. QED BY <1>3, <3>3, <4>1 DEF Ends
    <3>4. QED BY <1>4, <3>1, <3>2, <3>3
  <2>4. QED BY <2>1, <2>2, <2>3 DEF Blank
<1>11. QED BY <1>5, <1>8, <1>9, <1>10 DEF FdInv, OneOwner

\* The object is the descriptor's owner; its mapping was closed before.
LEMMA CloseFdStep ==
  ASSUME FdInv, NEW o \in Objects, CloseFd(o)
  PROVE  FdInv'
<1>1. fd[o] \in Descriptors
  BY DEF CloseFd, Owns, FdInv, FdTypes
<1>2. Closes(o, fd[o]) /\ ~Unprepares(o, fd[o])
  BY <1>1, LowIoAssumption DEF CloseFd, Owns, Closes, Unprepares
<1>3. QED BY <1>1, <1>2, ClosedIsFree DEF CloseFd, Ends, handles

\* CloseHandle() of what a failed PrepareMmap() left closes nothing.
LEMMA CloseMappingStep ==
  ASSUME FdInv, NEW o \in Objects, CloseMapping(o)
  PROVE  FdInv'
<1>0. /\ stage[o] = "reset" /\ mmap_fd[o] # Invalid /\ Close(mmap_fd[o])
      /\ stage' = [stage EXCEPT ![o] = "unprepared"]
      /\ fd' = fd /\ mmap_fd' = mmap_fd /\ owning' = owning /\ after' = after
      /\ windows' = windows /\ mine' = mine /\ lost' = lost
  BY DEF CloseMapping, handles
<1>1. CASE mmap_fd[o] \in Descriptors
  <2>1. Unprepares(o, mmap_fd[o])
    BY <1>0 DEF Unprepares
  <2>2. ~Closes(o, mmap_fd[o])
    BY <1>1, <2>1 DEF FdInv, OneOwner, OwnedOnce
  <2>3. QED BY <1>0, <1>1, <2>1, <2>2, ClosedIsFree DEF Ends
<1>2. CASE mmap_fd[o] = Null
  <2>1. table' = table /\ stale' = stale
    BY <1>0, <1>2, LowIoAssumption DEF Close, FdInv, FdTypes
  <2>2. stage'[o] = "unprepared" /\ \A x \in Objects \ {o} : stage'[x] = stage[x]
    BY <1>0 DEF FdInv, FdTypes
  <2>3. \A e \in Descriptors, x \in Objects :
          (Closes(x, e)' <=> Closes(x, e)) /\ (Unprepares(x, e)' <=> Unprepares(x, e))
    BY <1>0, <1>2, <2>2, LowIoAssumption DEF Closes, Unprepares
  <2>4. OneOwner'
    BY <1>0, <2>1, <2>3, OwnersStay DEF FdInv
  <2>5. FdTypes'
    BY <1>0, <2>1 DEF FdInv, FdTypes, Stages
  <2>6. Borrowed' /\ Blank'
    BY <1>0, <2>1, <2>2 DEF FdInv, Borrowed, Blank, FdTypes
  <2>7. QED BY <2>4, <2>5, <2>6 DEF FdInv
<1>3. QED BY <1>0, <1>1, <1>2 DEF FdInv, FdTypes

\* The closed mapping was nobody's already.
LEMMA ForgetMappingStep ==
  ASSUME FdInv, NEW o \in Objects, ForgetMapping(o)
  PROVE  FdInv'
<1>0. /\ stage[o] = "unprepared" /\ stage' = [stage EXCEPT ![o] = "reset"]
      /\ mmap_fd' = [mmap_fd EXCEPT ![o] = Invalid]
      /\ fd' = fd /\ owning' = owning /\ after' = after /\ windows' = windows
      /\ table' = table /\ mine' = mine /\ stale' = stale /\ lost' = lost
  BY DEF ForgetMapping
<1>1. FdTypes'
  BY <1>0 DEF FdInv, FdTypes, Stages
<1>2. /\ stage'[o] = "reset" /\ mmap_fd'[o] = Invalid
      /\ \A x \in Objects \ {o} : stage'[x] = stage[x] /\ mmap_fd'[x] = mmap_fd[x]
  BY <1>0 DEF FdInv, FdTypes
<1>3. \A e \in Descriptors, x \in Objects :
        (Closes(x, e)' <=> Closes(x, e)) /\ (Unprepares(x, e)' <=> Unprepares(x, e))
  BY <1>0, <1>2, LowIoAssumption DEF Closes, Unprepares
<1>4. OneOwner'
  BY <1>0, <1>3, OwnersStay DEF FdInv
<1>5. Borrowed' /\ Blank'
  BY <1>0, <1>2 DEF FdInv, Borrowed, Blank, FdTypes
<1>6. QED BY <1>1, <1>4, <1>5 DEF FdInv

\* After Reset() an object closes nothing: it has no descriptor or does not own it.
LEMMA LeaveStep ==
  ASSUME FdInv, NEW o \in Objects, Leave(o)
  PROVE  FdInv'
<1>0. /\ stage[o] = "closed" \/ (stage[o] = "reset" /\ mmap_fd[o] = Invalid /\ ~Owns(o))
      /\ stage' = [stage EXCEPT ![o] = after[o]] /\ after' = [after EXCEPT ![o] = "none"]
      /\ stale' = stale \ {o} /\ windows' = windows
      /\ mmap_fd' = mmap_fd /\ table' = table /\ mine' = mine /\ lost' = lost
  <2>1. UNCHANGED <<windows, mmap_fd, table, mine, views, lost>>
    BY Zenon DEF Leave
  <2>2. /\ stage[o] = "closed" \/ (stage[o] = "reset" /\ mmap_fd[o] = Invalid /\ ~Owns(o))
        /\ stage' = [stage EXCEPT ![o] = after[o]] /\ after' = [after EXCEPT ![o] = "none"]
        /\ stale' = stale \ {o}
    BY Zenon DEF Leave
  <2>3. QED BY <2>1, <2>2
<1> DEFINE d == IF stage[o] = "closed" \/ after[o] = "none" THEN Invalid ELSE fd[o]
           own == IF after[o] = "none" THEN TRUE ELSE stage[o] # "closed" /\ owning[o]
<1>1. fd' = [fd EXCEPT ![o] = d] /\ owning' = [owning EXCEPT ![o] = own]
  BY DEF Leave
<1>a. /\ d \in {fd[o], Invalid} /\ own \in BOOLEAN
      /\ d = Invalid \/ (stage[o] # "closed" /\ after[o] # "none" /\ d = fd[o] /\ (own <=> owning[o]))
  <2>1. owning[o] \in BOOLEAN /\ (stage[o] # "closed") \in BOOLEAN
    BY DEF FdInv, FdTypes
  <2>2. CASE after[o] = "none"
    BY <2>2
  <2>3. CASE after[o] # "none" /\ stage[o] = "closed"
    BY <2>3
  <2>4. CASE after[o] # "none" /\ stage[o] # "closed"
    <3>1. d = fd[o] /\ own = ((stage[o] # "closed") /\ owning[o])
      BY <2>4
    <3>2. QED BY <2>1, <2>4, <3>1
  <2>5. QED BY <2>2, <2>3, <2>4
<1> HIDE DEF d, own
<1>2. after[o] \in {"none", "idle"} /\ mmap_fd[o] = Invalid /\ o \in DOMAIN owning
  BY <1>0 DEF FdInv, FdTypes, Blank
<1>3. FdTypes'
  <2>1. fd' \in [Objects -> Descriptors \cup {Invalid}] /\ owning' \in [Objects -> BOOLEAN]
    BY <1>1, <1>a DEF FdInv, FdTypes
  <2>2. QED BY <1>0, <1>2, <2>1 DEF FdInv, FdTypes, Stages
<1>4. /\ stage'[o] = after[o]
      /\ \A x \in Objects \ {o} : /\ stage'[x] = stage[x] /\ fd'[x] = fd[x]
                                  /\ owning'[x] = owning[x]
  BY <1>0, <1>1 DEF FdInv, FdTypes
<1>5. \/ fd'[o] = Invalid
      \/ stage[o] = "reset" /\ after[o] = "idle" /\ fd'[o] = fd[o] /\ ~owning[o] /\ ~owning'[o]
  <2>0. fd'[o] = d
    BY <1>1 DEF FdInv, FdTypes
  <2>1. owning'[o] = own
    BY <1>1, <1>2
  <2>2. CASE d = Invalid
    BY <2>0, <2>2
  <2>3. CASE d # Invalid
    <3>1. /\ stage[o] # "closed" /\ after[o] = "idle" /\ d = fd[o] /\ (own <=> owning[o])
          /\ fd[o] # Invalid
      BY <1>2, <1>a, <2>3
    <3>2. stage[o] = "reset" /\ ~owning[o]
      BY <1>0, <3>1 DEF Owns
    <3>3. ~owning'[o]
      BY <2>1, <3>1, <3>2
    <3>4. QED BY <2>0, <3>1, <3>2, <3>3
  <2>4. QED BY <2>2, <2>3
<1>6. \A e \in Descriptors, x \in Objects :
        (Closes(x, e)' <=> Closes(x, e)) /\ (Unprepares(x, e)' <=> Unprepares(x, e))
  <2>1. ASSUME NEW e \in Descriptors
        PROVE  ~Closes(o, e)' /\ ~Closes(o, e) /\ ~Unprepares(o, e)' /\ ~Unprepares(o, e)
    BY <1>0, <1>2, <1>4, <1>5, LowIoAssumption DEF Closes, Unprepares, Owns
  <2>2. \A e \in Descriptors, x \in Objects \ {o} :
          (Closes(x, e)' <=> Closes(x, e)) /\ (Unprepares(x, e)' <=> Unprepares(x, e))
    BY <1>0, <1>2, <1>4 DEF Closes, Unprepares
  <2>3. QED BY <2>1, <2>2
<1>7. OneOwner'
  BY <1>0, <1>6, OwnersStay DEF FdInv
<1>8. Borrowed'
  BY <1>0, <1>4, <1>5 DEF FdInv, Borrowed
<1>9. Blank'
  <2>1. stage'[o] = "none" => fd'[o] = Invalid
    BY <1>4, <1>5
  <2>2. QED BY <1>0, <1>2, <1>4, <2>1 DEF FdInv, Blank, FdTypes
<1>10. QED BY <1>3, <1>7, <1>8, <1>9 DEF FdInv

\* Calls on mappings leave the descriptors alone.
LEMMA FdStutters ==
  ASSUME FdInv, UNCHANGED fds
  PROVE  FdInv'
<1>0. /\ windows' = windows /\ stage' = stage /\ after' = after /\ fd' = fd /\ mmap_fd' = mmap_fd
      /\ owning' = owning /\ table' = table /\ mine' = mine /\ stale' = stale /\ lost' = lost
  BY DEF fds, handles
<1>1. \A e \in Descriptors, x \in Objects :
        (Closes(x, e)' <=> Closes(x, e)) /\ (Unprepares(x, e)' <=> Unprepares(x, e))
  BY <1>0 DEF Closes, Unprepares
<1>2. OneOwner'
  BY <1>0, <1>1, OwnersStay DEF FdInv
<1>3. QED BY <1>0, <1>2 DEF FdInv, FdTypes, Borrowed, Blank
-----------------------------------------------------------------------------
(* Mappings.                                                               *)

ViewTypes ==
  /\ ptr \in [Pointers -> Addresses \cup {Null}] /\ length \in [Pointers -> Nat]
  /\ kept \in [Pointers -> {"none", "idle", "leave", "unmapped", "unmapped, leave"}]
  /\ mapped \in [Addresses -> Nat] /\ released \subseteq [at : Addresses, size : Nat]

Holds(p, a) == kept[p] \in {"idle", "leave"} /\ ptr[p] = a

\* One owner of a mapping, which knows how long it is, and none of an address where
\* nothing is.
MappedOnce(a) ==
  /\ \A p, q \in Pointers : Holds(p, a) /\ Holds(q, a) => p = q
  /\ \A r, s \in released : r.at = a /\ s.at = a => r = s
  /\ \A p \in Pointers, r \in released : ~(Holds(p, a) /\ r.at = a)
  /\ \A p \in Pointers : Holds(p, a) => mapped[a] > 0 /\ length[p] = mapped[a]
  /\ \A r \in released : r.at = a => mapped[a] > 0 /\ r.size = mapped[a]
  /\ mapped[a] > 0 => \/ \E p \in Pointers : Holds(p, a)
                      \/ \E r \in released : r.at = a

ViewInv == ViewTypes /\ aborted = FALSE /\ \A a \in Addresses : MappedOnce(a)

\* An address whose owner does not change.
LEMMA HoldersStay ==
  ASSUME NEW a \in Addresses, MappedOnce(a), mapped'[a] = mapped[a],
         \A p \in Pointers : (Holds(p, a)' <=> Holds(p, a)) /\ (Holds(p, a) => length'[p] = length[p]),
         \A r \in released : r.at = a => r \in released',
         \A r \in released' : r.at = a => r \in released
  PROVE  MappedOnce(a)'
<1>1. /\ \A p, q \in Pointers : Holds(p, a)' /\ Holds(q, a)' => p = q
      /\ \A p \in Pointers, r \in released' : ~(Holds(p, a)' /\ r.at = a)
  BY DEF MappedOnce
<1>2. \A r, s \in released' : r.at = a /\ s.at = a => r = s
  BY DEF MappedOnce
<1>3. \A p \in Pointers : Holds(p, a)' => mapped'[a] > 0 /\ length'[p] = mapped'[a]
  BY DEF MappedOnce
<1>4. \A r \in released' : r.at = a => mapped'[a] > 0 /\ r.size = mapped'[a]
  BY DEF MappedOnce
<1>5. mapped'[a] > 0 => (\E p \in Pointers : Holds(p, a)') \/ \E r \in released' : r.at = a
  BY DEF MappedOnce
<1>6. QED BY <1>1, <1>2, <1>3, <1>4, <1>5 DEF MappedOnce

\* Nothing is there any more, and nobody has it.
LEMMA NothingLeft ==
  ASSUME NEW a \in Addresses, mapped'[a] = 0,
         \A p \in Pointers : ~Holds(p, a)', \A r \in released' : r.at # a
  PROVE  MappedOnce(a)'
BY DEF MappedOnce

\* Calls on descriptors leave the mappings alone.
LEMMA ViewStutters ==
  ASSUME ViewInv, UNCHANGED views
  PROVE  ViewInv'
<1>0. /\ ptr' = ptr /\ length' = length /\ kept' = kept /\ mapped' = mapped
      /\ released' = released /\ aborted' = aborted
  BY DEF views
<1>1. ASSUME NEW a \in Addresses PROVE MappedOnce(a)'
  <2>1. \A p \in Pointers : (Holds(p, a)' <=> Holds(p, a))
    BY <1>0 DEF Holds
  <2>2. QED BY <1>0, <2>1, HoldersStay DEF ViewInv
<1>2. QED BY <1>0, <1>1 DEF ViewInv, ViewTypes

\* Nobody had the address, because nothing was mapped there.
LEMMA MmapStep ==
  ASSUME ViewInv, NEW o \in Objects, NEW p \in Pointers, NEW a \in Addresses, NEW n \in 1..MaxSize,
         Mmap(o, p, a, n)
  PROVE  ViewInv'
<1>0. /\ kept[p] = "none" /\ mapped[a] = 0 /\ n \in Nat /\ n > 0
      /\ kept' = [kept EXCEPT ![p] = "idle"] /\ ptr' = [ptr EXCEPT ![p] = a]
      /\ length' = [length EXCEPT ![p] = n] /\ mapped' = [mapped EXCEPT ![a] = n]
      /\ released' = released /\ aborted' = aborted
  BY LowIoAssumption DEF Mmap, BeginPtr
<1>1. ViewTypes'
  BY <1>0 DEF ViewInv, ViewTypes
<1>2. /\ kept'[p] = "idle" /\ ptr'[p] = a /\ length'[p] = n /\ mapped'[a] = n
      /\ \A q \in Pointers \ {p} : /\ kept'[q] = kept[q] /\ ptr'[q] = ptr[q]
                                   /\ length'[q] = length[q]
      /\ \A b \in Addresses \ {a} : mapped'[b] = mapped[b]
  BY <1>0 DEF ViewInv, ViewTypes
<1>4. ASSUME NEW b \in Addresses PROVE MappedOnce(b)'
  <2>0. MappedOnce(b)
    BY DEF ViewInv
  <2>1. CASE b = a
    <3>1. (\A q \in Pointers : ~Holds(q, a)) /\ \A r \in released : r.at # a
      BY <1>0, <2>0, <2>1 DEF MappedOnce
    <3>a. Holds(p, a)'
      BY <1>2 DEF Holds
    <3>b. \A q \in Pointers \ {p} : ~Holds(q, a)'
      BY <1>2, <3>1 DEF Holds
    <3>2. Holds(p, a)' /\ \A q \in Pointers : Holds(q, a)' => q = p
      BY <3>a, <3>b
    <3>3. /\ \A q, x \in Pointers : Holds(q, a)' /\ Holds(x, a)' => q = x
          /\ \A q \in Pointers : Holds(q, a)' => mapped'[a] > 0 /\ length'[q] = mapped'[a]
      BY <1>0, <1>2, <3>2
    <3>4. \A r \in released' : r.at # a
      BY <1>0, <3>1
    <3>5. QED BY <2>1, <3>2, <3>3, <3>4 DEF MappedOnce
  <2>2. CASE b # a
    <3>a. ~Holds(p, b) /\ ~Holds(p, b)'
      BY <1>0, <1>2, <2>2 DEF Holds
    <3>b. \A q \in Pointers \ {p} : (Holds(q, b)' <=> Holds(q, b)) /\ length'[q] = length[q]
      BY <1>2 DEF Holds
    <3>1. \A q \in Pointers : (Holds(q, b)' <=> Holds(q, b)) /\ (Holds(q, b) => length'[q] = length[q])
      BY <3>a, <3>b
    <3>2. QED BY <1>0, <1>2, <2>0, <2>2, <3>1, HoldersStay
  <2>3. QED BY <2>1, <2>2
<1>5. QED BY <1>0, <1>1, <1>4 DEF ViewInv

\* A mapping goes from one pointer to another, f to its inverse, with its length.
LEMMA MappingsMoved ==
  ASSUME NEW a \in Addresses, MappedOnce(a), mapped' = mapped, released' = released,
         NEW f \in [Pointers -> Pointers], NEW b \in [Pointers -> Pointers],
         \A p \in Pointers : /\ Holds(p, a)' => Holds(f[p], a) /\ length'[p] = length[f[p]]
                             /\ Holds(p, a) => Holds(b[p], a)',
         \A p, q \in Pointers : f[p] = f[q] => p = q
  PROVE  MappedOnce(a)'
BY DEF MappedOnce

\* The new pointer gets the mapping and its length.
LEMMA MovePtrStep ==
  ASSUME ViewInv, NEW p \in Pointers, NEW q \in Pointers, MovePtr(p, q)
  PROVE  ViewInv'
<1>0. /\ kept[p] = "idle" /\ kept[q] = "none" /\ kept' = [kept EXCEPT ![q] = "idle"]
      /\ ptr' = [ptr EXCEPT ![q] = ptr[p], ![p] = Null]
      /\ length' = [length EXCEPT ![q] = length[p], ![p] = 0]
      /\ mapped' = mapped /\ released' = released /\ aborted' = aborted
  BY DEF MovePtr
<1>1. ViewTypes'
  BY <1>0 DEF ViewInv, ViewTypes
<1>2. /\ p # q /\ ptr'[q] = ptr[p] /\ length'[q] = length[p] /\ ptr'[p] = Null
      /\ \A x \in Pointers \ {p, q} : /\ kept'[x] = kept[x] /\ ptr'[x] = ptr[x]
                                      /\ length'[x] = length[x]
  BY <1>0 DEF ViewInv, ViewTypes
<1>3. ASSUME NEW a \in Addresses PROVE MappedOnce(a)'
  <2> DEFINE f == [x \in Pointers |-> IF x = p THEN q ELSE IF x = q THEN p ELSE x]
  <2>0. /\ f \in [Pointers -> Pointers] /\ f[p] = q /\ f[q] = p
        /\ \A x \in Pointers \ {p, q} : f[x] = x
    BY <1>2
  <2> HIDE DEF f
  <2>1. ~Holds(p, a)' /\ ~Holds(q, a) /\ (Holds(q, a)' => Holds(p, a)) /\ (Holds(p, a) => Holds(q, a)')
    BY <1>0, <1>2, LowIoAssumption DEF Holds, ViewInv, ViewTypes
  <2>2. \A x \in Pointers \ {p, q} : Holds(x, a)' <=> Holds(x, a)
    BY <1>2 DEF Holds
  <2>3. \A x \in Pointers : /\ Holds(x, a)' => Holds(f[x], a) /\ length'[x] = length[f[x]]
                            /\ Holds(x, a) => Holds(f[x], a)'
    BY <1>2, <2>0, <2>1, <2>2
  <2>4. \A x, y \in Pointers : f[x] = f[y] => x = y
    BY <1>2, <2>0
  <2>5. MappedOnce(a)
    BY DEF ViewInv
  <2>6. QED BY <1>0, <2>0, <2>3, <2>4, <2>5, MappingsMoved
<1>4. QED BY <1>0, <1>1, <1>3 DEF ViewInv

\* What the assigned pointer had goes to the argument, with its length.
LEMMA AssignPtrStep ==
  ASSUME ViewInv, NEW p \in Pointers, NEW q \in Pointers, NEW t \in Pointers, AssignPtr(p, q, t)
  PROVE  ViewInv'
<1>0. /\ kept[p] = "idle" /\ kept[q] = "idle" /\ kept[t] = "none" /\ p # q
      /\ ptr' = [ptr EXCEPT ![p] = ptr[q], ![q] = Null, ![t] = ptr[p]]
      /\ length' = [length EXCEPT ![p] = length[q], ![q] = 0, ![t] = length[p]]
      /\ kept' = [kept EXCEPT ![t] = "leave"]
      /\ mapped' = mapped /\ released' = released /\ aborted' = aborted
  BY DEF AssignPtr
<1>1. ViewTypes'
  BY <1>0 DEF ViewInv, ViewTypes
<1>2. /\ p # t /\ q # t /\ p # q
      /\ ptr'[p] = ptr[q] /\ length'[p] = length[q] /\ ptr'[q] = Null
      /\ ptr'[t] = ptr[p] /\ length'[t] = length[p]
      /\ \A x \in Pointers \ {p, q, t} : /\ kept'[x] = kept[x] /\ ptr'[x] = ptr[x]
                                         /\ length'[x] = length[x]
      /\ kept'[p] = "idle" /\ kept'[q] = "idle" /\ kept'[t] = "leave"
  BY <1>0 DEF ViewInv, ViewTypes
<1>3. ASSUME NEW a \in Addresses PROVE MappedOnce(a)'
  <2> DEFINE f == [x \in Pointers |-> IF x = p THEN q ELSE IF x = t THEN p ELSE IF x = q THEN t ELSE x]
             b == [x \in Pointers |-> IF x = q THEN p ELSE IF x = p THEN t ELSE IF x = t THEN q ELSE x]
  <2>0. /\ f \in [Pointers -> Pointers] /\ f[p] = q /\ f[t] = p /\ f[q] = t
        /\ b \in [Pointers -> Pointers] /\ b[q] = p /\ b[p] = t
        /\ \A x \in Pointers \ {p, q, t} : f[x] = x /\ b[x] = x
    BY <1>2
  <2> HIDE DEF f, b
  <2>1. /\ ~Holds(q, a)' /\ ~Holds(t, a)
        /\ (Holds(p, a)' <=> Holds(q, a)) /\ (Holds(t, a)' <=> Holds(p, a))
    BY <1>0, <1>2, LowIoAssumption DEF Holds
  <2>2. \A x \in Pointers \ {p, q, t} : Holds(x, a)' <=> Holds(x, a)
    BY <1>2 DEF Holds
  <2>3. \A x \in Pointers : /\ Holds(x, a)' => Holds(f[x], a) /\ length'[x] = length[f[x]]
                            /\ Holds(x, a) => Holds(b[x], a)'
    BY <1>2, <2>0, <2>1, <2>2
  <2>4. \A x, y \in Pointers : f[x] = f[y] => x = y
    BY <1>2, <2>0
  <2>5. MappedOnce(a)
    BY DEF ViewInv
  <2>6. QED BY <1>0, <2>0, <2>3, <2>4, <2>5, MappingsMoved
<1>4. QED BY <1>0, <1>1, <1>3 DEF ViewInv

\* A release gives the mapping to the program, with its length.
LEMMA ReleasePtrStep ==
  ASSUME ViewInv, NEW p \in Pointers, ReleasePtr(p)
  PROVE  ViewInv'
<1>b. ptr[p] \in Addresses
  BY DEF ReleasePtr, ViewInv, ViewTypes
<1>c. PICK a \in Addresses : a = ptr[p]
  BY <1>b
<1>d. PICK new : new = [at |-> a, size |-> mapped[a]]
  OBVIOUS
<1>0. /\ kept[p] = "idle" /\ released' = released \cup {new}
      /\ ptr' = [ptr EXCEPT ![p] = Null]
      /\ length' = length /\ kept' = kept /\ mapped' = mapped /\ aborted' = aborted
  BY <1>c, <1>d DEF ReleasePtr
<1>a. new.at = a /\ new.size = mapped[a] /\ new \in [at : Addresses, size : Nat]
  BY <1>d DEF ViewInv, ViewTypes
<1>1. ViewTypes'
  BY <1>0, <1>a DEF ViewInv, ViewTypes
<1>2. ptr'[p] = Null /\ \A q \in Pointers \ {p} : ptr'[q] = ptr[q]
  BY <1>0 DEF ViewInv, ViewTypes
<1>3. /\ \A b \in Addresses : /\ ~Holds(p, b)' /\ (b # a => ~Holds(p, b))
                               /\ \A q \in Pointers \ {p} : (Holds(q, b)' <=> Holds(q, b))
      /\ Holds(p, a)
  BY <1>0, <1>2, <1>c, LowIoAssumption DEF Holds
<1>4. ASSUME NEW b \in Addresses PROVE MappedOnce(b)'
  <2>0. MappedOnce(b)
    BY DEF ViewInv
  <2>1. CASE b = a
    <3>1. /\ mapped[a] > 0 /\ \A q \in Pointers \ {p} : ~Holds(q, a)
          /\ \A r \in released : r.at # a
      BY <1>3, <2>0, <2>1 DEF MappedOnce
    <3>2. \A q \in Pointers : ~Holds(q, a)'
      BY <1>0, <1>3, <3>1
    <3>3. \A r \in released' : r.at = a => r = new
      BY <1>0, <3>1
    <3>4. QED BY <1>0, <1>a, <2>1, <3>1, <3>2, <3>3 DEF MappedOnce
  <2>2. CASE b # a
    <3>1. \A q \in Pointers : (Holds(q, b)' <=> Holds(q, b))
      BY <1>3, <2>2
    <3>2. \A r \in released' : r.at = b => r \in released
      BY <1>0, <1>a, <2>2
    <3>3. QED BY <1>0, <2>0, <3>1, <3>2, HoldersStay
  <2>3. QED BY <2>1, <2>2
<1>5. QED BY <1>0, <1>1, <1>4 DEF ViewInv

\* With the length of the mapping, munmap() leaves nothing of it.
LEMMA UnmapIsWhole ==
  ASSUME ViewInv, NEW a \in Addresses, mapped[a] > 0, Unmap(a, mapped[a])
  PROVE  /\ mapped' = [mapped EXCEPT ![a] = 0] /\ aborted' = aborted
         /\ mapped'[a] = 0 /\ \A b \in Addresses \ {a} : mapped'[b] = mapped[b]
<1>1. mapped[a] \in Nat /\ mapped \in [Addresses -> Nat]
  BY DEF ViewInv, ViewTypes
<1>2. mapped' = [mapped EXCEPT ![a] = 0] /\ aborted' = aborted
  BY <1>1 DEF Unmap
<1>3. QED BY <1>1, <1>2

\* The program gives back what was released to it.
LEMMA MunmapStep ==
  ASSUME ViewInv, NEW r \in released, Munmap(r)
  PROVE  ViewInv'
<1> DEFINE a == r.at
<1>0. /\ r \in released /\ released' = released \ {r} /\ Unmap(a, r.size)
      /\ ptr' = ptr /\ length' = length /\ kept' = kept /\ a \in Addresses
  BY DEF Munmap, ViewInv, ViewTypes
<1>1. /\ mapped[a] > 0 /\ r.size = mapped[a] /\ \A p \in Pointers : ~Holds(p, a)
      /\ \A s \in released : s.at = a => s = r
  BY <1>0 DEF ViewInv, MappedOnce
<1>2. /\ mapped' = [mapped EXCEPT ![a] = 0] /\ aborted' = aborted
      /\ mapped'[a] = 0 /\ \A b \in Addresses \ {a} : mapped'[b] = mapped[b]
  BY <1>0, <1>1, UnmapIsWhole
<1>3. ViewTypes'
  BY <1>0, <1>2 DEF ViewInv, ViewTypes
<1>4. \A p \in Pointers, b \in Addresses : (Holds(p, b)' <=> Holds(p, b))
  BY <1>0 DEF Holds
<1>5. ASSUME NEW b \in Addresses PROVE MappedOnce(b)'
  <2>1. CASE b = a
    <3>1. \A s \in released' : s.at # a
      BY <1>0, <1>1
    <3>2. QED BY <1>1, <1>2, <1>4, <2>1, <3>1, NothingLeft
  <2>2. CASE b # a
    <3>1. \A s \in released : s.at = b => s \in released'
      BY <1>0, <2>2
    <3>2. MappedOnce(b)
      BY DEF ViewInv
    <3>3. QED BY <1>0, <1>2, <1>4, <2>2, <3>1, <3>2, HoldersStay
  <2>3. QED BY <2>1, <2>2
<1>6. QED BY <1>2, <1>3, <1>5 DEF ViewInv

\* The two steps of Reset(): the mapping goes first, what is stored about it afterwards.
LEMMA ResetPtrStep ==
  ASSUME ViewInv, NEW p \in Pointers, ResetPtr(p)
  PROVE  ViewInv'
<1>a. ptr[p] \in Addresses
  BY DEF ResetPtr, ViewInv, ViewTypes
<1>b. PICK a \in Addresses : a = ptr[p]
  BY <1>a
<1>0. /\ kept[p] \in {"idle", "leave"} /\ Unmap(a, length[p])
      /\ kept' = [kept EXCEPT ![p] = IF @ = "idle" THEN "unmapped" ELSE "unmapped, leave"]
      /\ ptr' = ptr /\ length' = length /\ released' = released
  BY <1>b DEF ResetPtr
<1>1. Holds(p, a)
  BY <1>0, <1>b DEF Holds
<1>2. /\ mapped[a] > 0 /\ length[p] = mapped[a] /\ \A q \in Pointers \ {p} : ~Holds(q, a)
      /\ \A s \in released : s.at # a
  <2>1. MappedOnce(a)
    BY DEF ViewInv
  <2>2. mapped[a] > 0 /\ length[p] = mapped[a] /\ \A q \in Pointers \ {p} : ~Holds(q, a)
    BY <1>1, <2>1 DEF MappedOnce
  <2>3. \A s \in released : s.at # a
    BY <1>1, <2>1 DEF MappedOnce
  <2>4. QED BY <2>2, <2>3
<1>3. /\ mapped' = [mapped EXCEPT ![a] = 0] /\ aborted' = aborted
      /\ mapped'[a] = 0 /\ \A b \in Addresses \ {a} : mapped'[b] = mapped[b]
  BY <1>0, <1>2, UnmapIsWhole
<1>4. ViewTypes'
  BY <1>0, <1>3 DEF ViewInv, ViewTypes
<1>5. kept'[p] \notin {"idle", "leave"} /\ \A q \in Pointers \ {p} : kept'[q] = kept[q]
  BY <1>0 DEF ViewInv, ViewTypes
<1>6. \A b \in Addresses : /\ ~Holds(p, b)' /\ (b # a => ~Holds(p, b))
                           /\ \A q \in Pointers \ {p} : (Holds(q, b)' <=> Holds(q, b))
  BY <1>0, <1>5, <1>b DEF Holds
<1>7. ASSUME NEW b \in Addresses PROVE MappedOnce(b)'
  <2>1. CASE b = a
    <3>1. \A q \in Pointers : ~Holds(q, a)'
      BY <1>0, <1>2, <1>6
    <3>2. QED BY <1>0, <1>2, <1>3, <2>1, <3>1, NothingLeft
  <2>2. CASE b # a
    <3>1. \A q \in Pointers : (Holds(q, b)' <=> Holds(q, b))
      BY <1>6, <2>2
    <3>2. MappedOnce(b)
      BY DEF ViewInv
    <3>3. QED BY <1>0, <1>3, <2>2, <3>1, <3>2, HoldersStay
  <2>3. QED BY <2>1, <2>2
<1>8. QED BY <1>3, <1>4, <1>7 DEF ViewInv

\* A pointer that goes, or forgets what it has undone, owned nothing any more.
LEMMA ForgetPtrStep ==
  ASSUME ViewInv, NEW p \in Pointers, ForgetPtr(p) \/ DestroyPtr(p)
  PROVE  ViewInv'
<1>0. /\ mapped' = mapped /\ released' = released /\ aborted' = aborted
      /\ \/ /\ kept[p] = "idle" /\ kept' = [kept EXCEPT ![p] = "leave"]
            /\ ptr' = ptr /\ length' = length
         \/ /\ kept[p] \notin {"idle", "leave"} \/ ptr[p] = Null
            /\ kept' = [kept EXCEPT ![p] = IF @ = "unmapped" THEN "idle" ELSE "none"]
            /\ ptr' = [ptr EXCEPT ![p] = Null] /\ length' = [length EXCEPT ![p] = 0]
  BY DEF ForgetPtr, DestroyPtr
<1>1. ViewTypes'
  <2>1. ViewTypes
    BY DEF ViewInv
  <2>2. CASE kept' = [kept EXCEPT ![p] = "leave"] /\ ptr' = ptr /\ length' = length
    BY <1>0, <2>1, <2>2 DEF ViewTypes
  <2>3. CASE /\ kept' = [kept EXCEPT ![p] = IF @ = "unmapped" THEN "idle" ELSE "none"]
             /\ ptr' = [ptr EXCEPT ![p] = Null] /\ length' = [length EXCEPT ![p] = 0]
    BY <1>0, <2>1, <2>3 DEF ViewTypes
  <2>4. QED BY <1>0, <2>2, <2>3
<1>2. \A q \in Pointers \ {p} : kept'[q] = kept[q] /\ ptr'[q] = ptr[q] /\ length'[q] = length[q]
  BY <1>0 DEF ViewInv, ViewTypes
<1>3. \/ kept[p] = "idle" /\ kept'[p] = "leave" /\ ptr'[p] = ptr[p] /\ length'[p] = length[p]
      \/ (kept[p] \notin {"idle", "leave"} \/ ptr[p] = Null) /\ ptr'[p] = Null
  BY <1>0 DEF ViewInv, ViewTypes
<1>4. ASSUME NEW a \in Addresses PROVE MappedOnce(a)'
  <2>1. (Holds(p, a)' <=> Holds(p, a)) /\ (Holds(p, a) => length'[p] = length[p])
    BY <1>3, LowIoAssumption DEF Holds
  <2>2. \A q \in Pointers \ {p} : (Holds(q, a)' <=> Holds(q, a)) /\ length'[q] = length[q]
    BY <1>2 DEF Holds
  <2>3. \A q \in Pointers : (Holds(q, a)' <=> Holds(q, a)) /\ (Holds(q, a) => length'[q] = length[q])
    BY <2>1, <2>2
  <2>4. QED BY <1>0, <2>3, HoldersStay DEF ViewInv
<1>5. QED BY <1>0, <1>1, <1>4 DEF ViewInv
-----------------------------------------------------------------------------
(* Both together.                                                          *)

\* The program begins with its standard output and nothing else.
LEMMA Starts ==
  ASSUME Init
  PROVE  FdInv /\ ViewInv
<1>1. FdTypes
  BY LowIoAssumption DEF Init, FdTypes, Stages, Kinds
<1>2. \A o \in Objects : stage[o] = "none" /\ fd[o] = Invalid /\ mmap_fd[o] = Invalid
  BY DEF Init
<1>3. mine = {StdOut} /\ lost = {} /\ stale = {} /\ \A d \in Descriptors : Opened(d) <=> d = StdOut
  BY DEF Init, Opened
<1>4. \A d \in Descriptors, o \in Objects : ~Closes(o, d) /\ ~Unprepares(o, d)
  BY <1>2, LowIoAssumption DEF Closes, Unprepares
<1>5. OneOwner
  BY <1>3, <1>4 DEF OneOwner, OwnedOnce, Ends
<1>6. Borrowed /\ Blank
  BY <1>2, <1>3 DEF Borrowed, Blank
<1>7. ViewTypes /\ aborted = FALSE
  BY DEF Init, ViewTypes
<1>8. /\ \A p \in Pointers, a \in Addresses : ~Holds(p, a)
      /\ released = {} /\ \A a \in Addresses : mapped[a] = 0
  BY DEF Init, Holds
<1>9. \A a \in Addresses : MappedOnce(a)
  BY <1>8 DEF MappedOnce
<1>10. QED BY <1>1, <1>5, <1>6, <1>7, <1>9 DEF FdInv, ViewInv

\* Each action works on one half and leaves the other alone.
LEMMA Inductive ==
  ASSUME FdInv /\ ViewInv, [Next]_vars
  PROVE  (FdInv /\ ViewInv)'
<1>1. ASSUME NEW d \in Descriptors, Program(d) PROVE (FdInv /\ ViewInv)'
  <2>1. UNCHANGED views
    BY <1>1 DEF Program, ProgramOpen, ProgramClose
  <2>2. QED BY <1>1, <2>1, ProgramStep, ViewStutters
<1>2. ASSUME NEW o \in Objects, Create(o) PROVE (FdInv /\ ViewInv)'
  <2>1. UNCHANGED views
    BY <1>2 DEF Create, Construct, ConstructFrom, ConstructOpen, OpenStdOut, Begin
  <2>2. QED BY <1>2, <2>1, CreateStep, ViewStutters
<1>3. ASSUME NEW o \in Objects, Use(o) PROVE (FdInv /\ ViewInv)'
  <2>1. CASE TryOpen(o)
    <3>1. UNCHANGED views
      BY <2>1 DEF TryOpen
    <3>2. QED BY <2>1, <3>1, TryOpenStep, ViewStutters
  <2>2. ASSUME NEW x \in Objects, MoveCtor(o, x) PROVE (FdInv /\ ViewInv)'
    <3>1. UNCHANGED views
      BY <2>2 DEF MoveCtor
    <3>2. QED BY <2>2, <3>1, MoveCtorStep, ViewStutters
  <2>3. ASSUME NEW x \in Objects, Swap(o, x) PROVE (FdInv /\ ViewInv)'
    <3>1. UNCHANGED views
      BY <2>3 DEF Swap
    <3>2. QED BY <2>3, <3>1, SwapStep, ViewStutters
  <2>4. ASSUME NEW x \in Objects, NEW a \in Objects, Assign(o, x, a) PROVE (FdInv /\ ViewInv)'
    <3>1. UNCHANGED views
      BY <2>4 DEF Assign
    <3>2. QED BY <2>4, <3>1, AssignStep, ViewStutters
  <2>5. ASSUME NEW next \in {"idle", "none"}, Reset(o, next) PROVE (FdInv /\ ViewInv)'
    <3>1. UNCHANGED views
      BY <2>5 DEF Reset
    <3>2. QED BY <2>5, <3>1, ResetStep, ViewStutters
  <2>6. CASE PrepareMmap(o)
    <3>1. UNCHANGED views
      BY <2>6 DEF PrepareMmap
    <3>2. QED BY <2>6, <3>1, PrepareMmapStep, ViewStutters
  <2>7. ASSUME NEW p \in Pointers, NEW a \in Addresses, NEW n \in 1..MaxSize, Mmap(o, p, a, n)
        PROVE  (FdInv /\ ViewInv)'
    <3>1. UNCHANGED fds
      BY <2>7 DEF Mmap
    <3>2. QED BY <2>7, <3>1, FdStutters, MmapStep
  <2>8. QED BY <1>3, <2>1, <2>2, <2>3, <2>4, <2>5, <2>6, <2>7 DEF Use
<1>4. ASSUME NEW o \in Objects, Advance(o) PROVE (FdInv /\ ViewInv)'
  <2>1. UNCHANGED views
    BY <1>4 DEF Advance, CloseMapping, ForgetMapping, CloseFd, Leave
  <2>2. QED BY <1>4, <2>1, CloseMappingStep, ForgetMappingStep, CloseFdStep, LeaveStep, ViewStutters
            DEF Advance
<1>5. ASSUME NEW p \in Pointers, UsePtr(p) PROVE (FdInv /\ ViewInv)'
  <2>1. UNCHANGED fds
    BY <1>5 DEF UsePtr, MovePtr, AssignPtr, ReleasePtr, DestroyPtr, ResetPtr, ForgetPtr
  <2>2. FdInv'
    BY <2>1, FdStutters
  <2>3. ASSUME NEW q \in Pointers, MovePtr(p, q) \/ \E a \in Pointers : AssignPtr(p, q, a)
        PROVE  ViewInv'
    BY <2>3, MovePtrStep, AssignPtrStep
  <2>4. CASE ReleasePtr(p) \/ ResetPtr(p) \/ DestroyPtr(p) \/ ForgetPtr(p)
    BY <2>2, <2>4, ReleasePtrStep, ResetPtrStep, ForgetPtrStep
  <2>5. QED BY <1>5, <2>2, <2>3, <2>4 DEF UsePtr
<1>6. ASSUME NEW r \in released, Munmap(r) PROVE (FdInv /\ ViewInv)'
  <2>1. UNCHANGED fds
    BY <1>6 DEF Munmap
  <2>2. QED BY <1>6, <2>1, FdStutters, MunmapStep
<1>7. CASE UNCHANGED vars
  <2>1. UNCHANGED fds /\ UNCHANGED views
    BY <1>7 DEF vars, fds
  <2>2. QED BY <2>1, FdStutters, ViewStutters
<1>8. QED BY <1>1, <1>2, <1>3, <1>4, <1>5, <1>6, <1>7 DEF Next
-----------------------------------------------------------------------------
(* The promises, which count.                                              *)

\* A set whose elements are all the same one.
LEMMA CountsOne ==
  ASSUME NEW S, \A x, y \in S : x = y
  PROVE  Cardinality(S) = IF S = {} THEN 0 ELSE 1
<1>1. CASE S = {}
  BY <1>1, FS_EmptySet
<1>2. CASE S # {}
  <2>1. PICK x \in S : TRUE
    BY <1>2
  <2>2. S = {x}
    BY <2>1
  <2>3. QED BY <1>2, <2>2, FS_Singleton
<1>3. QED BY <1>1, <1>2

\* The invariant, counted.
LEMMA DescriptorsCounted ==
  ASSUME FdInv, ViewInv
  PROVE  DescriptorsOwned
<1>1. TypeOK
  BY DEF FdInv, ViewInv, FdTypes, ViewTypes, TypeOK
<1>2. ASSUME NEW d \in Descriptors
      PROVE  Cardinality(Closers(d)) + Cardinality(Unpreparers(d))
               + (IF d \in mine THEN 1 ELSE 0) + (IF d \in lost THEN 1 ELSE 0)
             = IF Opened(d) THEN 1 ELSE 0
  <2>1. OwnedOnce(d)
    BY DEF FdInv, OneOwner
  <2>2. \A o \in Objects : (o \in Closers(d) <=> Closes(o, d)) /\ (o \in Unpreparers(d) <=> Unprepares(o, d))
    BY LowIoAssumption DEF Closers, Unpreparers, Closes, Unprepares, Owns
  <2>3. Closers(d) \subseteq Objects /\ Unpreparers(d) \subseteq Objects
    BY DEF Closers, Unpreparers
  <2>4. Cardinality(Closers(d)) = IF Closers(d) = {} THEN 0 ELSE 1
    <3>1. \A x, y \in Closers(d) : x = y
      BY <2>1, <2>2, <2>3 DEF OwnedOnce
    <3>2. QED BY <3>1, CountsOne
  <2>5. Cardinality(Unpreparers(d)) = IF Unpreparers(d) = {} THEN 0 ELSE 1
    <3>1. \A x, y \in Unpreparers(d) : x = y
      BY <2>1, <2>2, <2>3 DEF OwnedOnce
    <3>2. QED BY <3>1, CountsOne
  <2>6. /\ Closers(d) = {} \/ Unpreparers(d) = {}
        /\ Closers(d) # {} \/ Unpreparers(d) # {} => Opened(d) /\ d \notin mine \cup lost
        /\ d \in mine \cup lost => Opened(d)
        /\ ~(d \in mine /\ d \in lost)
        /\ Opened(d) => d \in mine \cup lost \/ Closers(d) # {} \/ Unpreparers(d) # {}
    <3>1. Closers(d) = {} \/ Unpreparers(d) = {}
      BY <2>1, <2>2, <2>3 DEF OwnedOnce
    <3>2. Closers(d) # {} \/ Unpreparers(d) # {} => Opened(d) /\ d \notin mine \cup lost
      BY <2>1, <2>2, <2>3 DEF OwnedOnce, Ends
    <3>3. Opened(d) => d \in mine \cup lost \/ Closers(d) # {} \/ Unpreparers(d) # {}
      BY <2>1, <2>2 DEF OwnedOnce, Ends
    <3>4. QED BY <2>1, <3>1, <3>2, <3>3 DEF OwnedOnce
  <2>7. QED BY <2>4, <2>5, <2>6
<1>3. \A o \in stale : stage[o] = "closed"
  BY DEF FdInv, Blank
<1>4. QED BY <1>1, <1>2, <1>3 DEF DescriptorsOwned

\* The invariant, counted.
LEMMA MappingsCounted ==
  ASSUME ViewInv
  PROVE  MappingsOwned
<1>1. ASSUME NEW a \in Addresses
      PROVE  LET holders == {p \in Pointers : kept[p] \in {"idle", "leave"} /\ ptr[p] = a}
                 taken == {r \in released : r.at = a}
             IN  /\ Cardinality(holders) + Cardinality(taken) = IF mapped[a] > 0 THEN 1 ELSE 0
                 /\ \A p \in holders : length[p] = mapped[a]
  <2> DEFINE holders == {p \in Pointers : kept[p] \in {"idle", "leave"} /\ ptr[p] = a}
             taken == {r \in released : r.at = a}
  <2>0. MappedOnce(a)
    BY DEF ViewInv
  <2>1. \A p : p \in holders <=> p \in Pointers /\ Holds(p, a)
    BY DEF Holds
  <2>2. \A r : r \in taken <=> r \in released /\ r.at = a
    OBVIOUS
  <2> HIDE DEF holders, taken
  <2>3. Cardinality(holders) = IF holders = {} THEN 0 ELSE 1
    <3>1. \A p, q \in holders : p = q
      BY <2>0, <2>1 DEF MappedOnce
    <3>2. QED BY <3>1, CountsOne
  <2>4. Cardinality(taken) = IF taken = {} THEN 0 ELSE 1
    <3>1. \A r, s \in taken : r = s
      BY <2>0, <2>2 DEF MappedOnce
    <3>2. QED BY <3>1, CountsOne
  <2>5. /\ holders = {} \/ taken = {}
        /\ holders # {} \/ taken # {} <=> mapped[a] > 0
        /\ \A p \in holders : length[p] = mapped[a]
    <3>1. holders = {} \/ taken = {}
      BY <2>0, <2>1, <2>2 DEF MappedOnce
    <3>2. /\ holders # {} => mapped[a] > 0
          /\ \A p \in holders : length[p] = mapped[a]
      BY <2>0, <2>1 DEF MappedOnce
    <3>3. taken # {} => mapped[a] > 0
      BY <2>0, <2>2 DEF MappedOnce
    <3>4. mapped[a] > 0 => holders # {} \/ taken # {}
      BY <2>0, <2>1, <2>2 DEF MappedOnce
    <3>5. QED BY <3>1, <3>2, <3>3, <3>4
  <2>6. Cardinality(holders) + Cardinality(taken) = IF mapped[a] > 0 THEN 1 ELSE 0
    BY <2>3, <2>4, <2>5
  <2>7. QED BY <2>5, <2>6 DEF holders, taken
<1>2. QED BY <1>1 DEF MappingsOwned, ViewInv

\* Who owns what, in every state that the program can be in.
THEOREM Invariant == Spec => [](FdInv /\ ViewInv)
<1>1. Init => FdInv /\ ViewInv
  BY Starts
<1>2. (FdInv /\ ViewInv) /\ [Next]_vars => (FdInv /\ ViewInv)'
  BY Inductive
<1>3. QED BY <1>1, <1>2, PTL DEF Spec

\* Each open descriptor has exactly one owner, and no object has the number of a closed
\* one but while it is closing it, for any number of objects, threads and descriptors.
THEOREM DescriptorsAlwaysOwned == Spec => []DescriptorsOwned
<1>1. FdInv /\ ViewInv => DescriptorsOwned
  BY DescriptorsCounted
<1>2. QED BY <1>1, Invariant, PTL

\* Each mapping has exactly one owner, which knows its length, and none is undone twice.
THEOREM MappingsAlwaysOwned == Spec => []MappingsOwned
<1>1. FdInv /\ ViewInv => MappingsOwned
  BY MappingsCounted
<1>2. QED BY <1>1, Invariant, PTL
=============================================================================
