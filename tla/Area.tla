---- MODULE Area ----
(***************************************************************************)
(* Shared memory areas of the POSIX kernel wrapper                           *)
(* (src/src/wrappers/posix/BHAPI_wrapper_area.cpp): processes that create,   *)
(* clone, resize and delete areas under one name.  A name leads to a segment *)
(* of shared memory (shm_open); a segment lives on, nameless, while somebody *)
(* has it mapped.  Nothing locks the file's functions against each other, so *)
(* one action is one system call that reads or changes a name or a size.     *)
(* A process may die and leave its name behind, for which create_area is     *)
(* made to unlink a name that is taken.                                      *)
(***************************************************************************)
EXTENDS Naturals, FiniteSets

CONSTANTS
    Procs,      \* processes
    Segs,       \* segments that may come to exist: a bound on creations
    NoSeg,      \* no segment: the name is free
    MaxSize,    \* bound on sizes
    MayFail     \* whether ftruncate and mmap may fail

ASSUME AreaAssumption ==
    /\ NoSeg \notin Segs
    /\ MaxSize \in Nat \ {0}
    /\ MayFail \in BOOLEAN

VARIABLES
    name,       \* the segment that the name leads to
    size,       \* per segment: its size, 0 until ftruncate
    used,       \* segments that exist or have existed
    procPc,     \* per process: "idle", "collided" (its shm_open found the name
                \* taken), "unlinked", "sizing", "cloning" or "resizing"
    fd,         \* per process: the segment it has just opened
    area,       \* per process: its area, if any
    takenOver   \* history: a name was taken whose creator still had its segment

areaVars == <<name, size, used, procPc, fd, area, takenOver>>

\* b_posix_area_t: openedIPC tells a clone from an original.
AreaRecord == [seg : Segs, length : 1..MaxSize, openedIPC : BOOLEAN, writable : BOOLEAN]
NoArea == [seg |-> NoSeg]
Has(p) == area[p] # NoArea
Original(p) == Has(p) /\ ~area[p].openedIPC

\* Process p has created segment s and still has it.
Creates(p, s) == \/ procPc[p] = "sizing" /\ fd[p] = s
                 \/ Original(p) /\ area[p].seg = s

AreaTypeOK ==
    /\ name \in Segs \cup {NoSeg}
    /\ size \in [Segs -> 0..MaxSize]
    /\ used \subseteq Segs
    /\ procPc \in [Procs -> {"idle", "collided", "unlinked", "sizing", "cloning",
                         "resizing"}]
    /\ fd \in [Procs -> Segs \cup {NoSeg}]
    /\ area \in [Procs -> AreaRecord \cup {NoArea}]
    /\ takenOver \in BOOLEAN

AreaInit ==
    /\ name = NoSeg
    /\ size = [s \in Segs |-> 0]
    /\ used = {}
    /\ procPc = [p \in Procs |-> "idle"]
    /\ fd = [p \in Procs |-> NoSeg]
    /\ area = [p \in Procs |-> NoArea]
    /\ takenOver = FALSE

-----------------------------------------------------------------------------
(* Helpers *)

Goto(p, place) == procPc' = [procPc EXCEPT ![p] = place]
Open(p, s) == fd' = [fd EXCEPT ![p] = s]
Obtain(p, a) == area' = [area EXCEPT ![p] = a]

\* The call ends without an area, or with one.
GiveUpArea(p) == Goto(p, "idle") /\ Open(p, NoSeg) /\ UNCHANGED area
Deliver(p, a) == Goto(p, "idle") /\ Open(p, NoSeg) /\ Obtain(p, a)

\* shm_unlink; it fails, unnoticed, when the name is free.
Unlink == name' = NoSeg

\* It took the name from a creator that is alive.
TakeOver == takenOver' = (takenOver \/ \E q \in Procs : Creates(q, name))

\* shm_open with O_CREAT | O_EXCL on a free name.
Create(p) ==
    /\ name = NoSeg
    /\ \E s \in Segs \ used :
        /\ name' = s
        /\ used' = used \cup {s}
        /\ Open(p, s)
    /\ Goto(p, "sizing")

-----------------------------------------------------------------------------
(* create_area *)

create_area(p) ==
    /\ procPc[p] = "idle"
    /\ ~Has(p)
    /\ \/ Create(p)
       \/ name # NoSeg /\ Goto(p, "collided") /\ UNCHANGED <<name, used, fd>>
    /\ UNCHANGED <<size, area, takenOver>>

\* The name is taken: unlink it, whatever it leads to by now.
UnlinkTaken(p) ==
    /\ procPc[p] = "collided"
    /\ IF name = NoSeg
         THEN GiveUpArea(p) /\ UNCHANGED <<name, takenOver>>
         ELSE /\ Unlink /\ TakeOver
              /\ Goto(p, "unlinked")
              /\ UNCHANGED <<fd, area>>
    /\ UNCHANGED <<size, used>>

\* Seeded fault: the second shm_open does without O_EXCL.
SharedCreateAgain(p) ==
    /\ procPc[p] = "unlinked"
    /\ \/ Create(p) /\ UNCHANGED area
       \/ /\ name # NoSeg
          /\ Open(p, name)
          /\ Goto(p, "sizing")
          /\ UNCHANGED <<name, used, area>>
    /\ UNCHANGED <<size, takenOver>>

CreateAgain(p) ==
    /\ procPc[p] = "unlinked"
    /\ \/ Create(p) /\ UNCHANGED area
       \/ name # NoSeg /\ GiveUpArea(p) /\ UNCHANGED <<name, used>>
    /\ UNCHANGED <<size, takenOver>>

\* ftruncate and mmap; when one fails, the name is unlinked.
SizeAndMap(p, n, w) ==
    /\ procPc[p] = "sizing"
    /\ \/ /\ size' = [size EXCEPT ![fd[p]] = n]
          /\ Deliver(p, [seg |-> fd[p], length |-> n, openedIPC |-> FALSE,
                         writable |-> w])
          /\ UNCHANGED name
       \/ MayFail /\ Unlink /\ GiveUpArea(p) /\ UNCHANGED size
    /\ UNCHANGED <<used, takenOver>>

-----------------------------------------------------------------------------
(* clone_area *)

clone_area(p) ==
    /\ procPc[p] = "idle"
    /\ ~Has(p)
    /\ name # NoSeg
    /\ Open(p, name)
    /\ Goto(p, "cloning")
    /\ UNCHANGED <<name, size, used, area, takenOver>>

\* fstat tells the size; mmap refuses an empty mapping.
Mappable(n) == n > 0

MapClone(p, w) ==
    /\ procPc[p] = "cloning"
    /\ \/ /\ Mappable(size[fd[p]])
          /\ Deliver(p, [seg |-> fd[p], length |-> size[fd[p]],
                         openedIPC |-> TRUE, writable |-> w])
       \/ /\ ~Mappable(size[fd[p]]) \/ MayFail
          /\ GiveUpArea(p)
    /\ UNCHANGED <<name, size, used, takenOver>>

-----------------------------------------------------------------------------
(* delete_area, delete_area_etc, resize and protection; the end of a process *)

\* Seeded fault: everybody unlinks.
AlwaysUnlinks(a) == TRUE
\* delete_area unlinks for the one who created.
Unlinks(a) == ~a.openedIPC

delete_area(p) ==
    /\ procPc[p] = "idle"
    /\ Has(p)
    /\ IF Unlinks(area[p]) THEN Unlink ELSE UNCHANGED name
    /\ Obtain(p, NoArea)
    /\ UNCHANGED <<size, used, procPc, fd, takenOver>>

delete_area_etc(p, no_clone) ==
    /\ procPc[p] = "idle"
    /\ Has(p)
    /\ IF no_clone /\ (area[p].openedIPC => area[p].writable)
         THEN /\ Unlink
              /\ IF area[p].openedIPC THEN TakeOver ELSE UNCHANGED takenOver
         ELSE UNCHANGED <<name, takenOver>>
    /\ Obtain(p, NoArea)
    /\ UNCHANGED <<size, used, procPc, fd>>

\* b_resize_area opens the segment by its name, which need not be the one that
\* is mapped.
b_resize_area(p) ==
    /\ procPc[p] = "idle"
    /\ Original(p)
    /\ name # NoSeg
    /\ Open(p, name)
    /\ Goto(p, "resizing")
    /\ UNCHANGED <<name, size, used, area, takenOver>>

\* ftruncate and mremap; when mremap fails the old length is put back.
Resize(p, n) ==
    /\ procPc[p] = "resizing"
    /\ \/ /\ size' = [size EXCEPT ![fd[p]] = n]
          /\ Deliver(p, [area[p] EXCEPT !.length = n])
       \/ /\ MayFail
          /\ size' = [size EXCEPT ![fd[p]] = area[p].length]
          /\ GiveUpArea(p)
       \/ /\ MayFail
          /\ GiveUpArea(p)
          /\ UNCHANGED size
    /\ UNCHANGED <<name, used, takenOver>>

b_set_area_protection(p, w) ==
    /\ procPc[p] = "idle"
    /\ Has(p)
    /\ Obtain(p, [area[p] EXCEPT !.writable = w])
    /\ UNCHANGED <<name, size, used, procPc, fd, takenOver>>

\* The process dies; the system unmaps and closes, and the name stays.
Die(p) ==
    /\ Has(p) \/ procPc[p] # "idle"
    /\ Deliver(p, NoArea)
    /\ UNCHANGED <<name, size, used, takenOver>>

-----------------------------------------------------------------------------

AreaNext ==
    \E p \in Procs :
        \/ create_area(p) \/ UnlinkTaken(p) \/ CreateAgain(p)
        \/ \E n \in 1..MaxSize, w \in BOOLEAN : SizeAndMap(p, n, w)
        \/ clone_area(p)
        \/ \E w \in BOOLEAN : MapClone(p, w)
        \/ delete_area(p)
        \/ \E no_clone \in BOOLEAN : delete_area_etc(p, no_clone)
        \/ b_resize_area(p)
        \/ \E n \in 1..MaxSize : Resize(p, n)
        \/ \E w \in BOOLEAN : b_set_area_protection(p, w)
        \/ Die(p)

AreaSpec == AreaInit /\ [][AreaNext]_areaVars

-----------------------------------------------------------------------------
(* Properties *)

\* A segment has one creator at most, in whatever order processes that create
\* an area of the same name unlink it under each other (area.cpp:124-130); and
\* nobody has a segment mapped that is still without a size (216), although a
\* clone can open it before its creator's ftruncate.  The size need not be its
\* creator's: b_resize_area of an earlier creator goes by the name.
SegmentsAreSound ==
    /\ AreaTypeOK
    /\ \A p, q \in Procs, s \in Segs :
         Creates(p, s) /\ Creates(q, s) => p = q
    /\ \A p \in Procs :
         Has(p) => size[area[p].seg] > 0 /\ area[p].length > 0

\* delete_area, b_resize_area and the failure paths of create_area act on
\* whatever the name leads to by then, and nothing stops one from hitting a
\* newer segment.  It takes somebody who takes a living creator's name to begin
\* with, by creating under it (124-130) or by delete_area_etc with no_clone on
\* a clone: until then no unlink and no resize goes astray, whoever dies,
\* fails, clones and deletes meanwhile.  Each creator has its name, and its
\* segment the size it mapped.
NamesStayWithCreators ==
    ~takenOver =>
        \A p \in Procs :
            /\ procPc[p] = "sizing" => name = fd[p]
            /\ Original(p) => /\ name = area[p].seg
                              /\ size[name] = area[p].length
====
