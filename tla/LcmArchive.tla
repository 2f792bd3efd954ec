----------------------------- MODULE LcmArchive -----------------------------
(***************************************************************************)
(* lcm_archive.h: a table without locks that gives an address a short key, *)
(* for use by several threads: put claims an entry with a compare-and-swap,*)
(* remove empties it, "a key will be hold by only one thread".  A step is  *)
(* one access to the table.                                                *)
(***************************************************************************)
EXTENDS ArchiveKey

CONSTANTS Threads,
          Values     \* addresses the threads put, never LCM_ARCHIVE_EMPTY

ASSUME ArchiveAssumption == Values \subseteq Nat \ {LCM_ARCHIVE_EMPTY}

VARIABLES ptr,    \* ptr[k]: the value of entry k
          at,     \* at[t]: where thread t is
          val,    \* val[t]: the address it puts, or that remove has read
          own,    \* own[t]: a ghost, the address its key stands for
          key,    \* key[t]: the entry it tries or removes
          tries,  \* tries[t]: i, the try it is at
          held    \* the keys given out, each with the address it stands for

lcmVars == <<ptr, at, val, own, key, tries, held>>

Entries == 0 .. Cap - 1

\* An archive is created, empty.
LCM_archive_init ==
    /\ ptr = [k \in Entries |-> LCM_ARCHIVE_EMPTY]
    /\ at = [t \in Threads |-> "idle"]
    /\ val = [t \in Threads |-> LCM_ARCHIVE_EMPTY]
    /\ own = [t \in Threads |-> LCM_ARCHIVE_EMPTY]
    /\ key = [t \in Threads |-> 0]
    /\ tries = [t \in Threads |-> 0]
    /\ held = {}

\* A thread calls LCM_archive_put for an address nobody else puts: it has
\* just allocated it.
Put(t, v) ==
    /\ at[t] = "idle"
    /\ \A u \in Threads : own[u] # v
    /\ \A h \in held : h.own # v
    /\ at' = [at EXCEPT ![t] = "test"]
    /\ val' = [val EXCEPT ![t] = v]
    /\ own' = [own EXCEPT ![t] = v]
    /\ key' = [key EXCEPT ![t] = HashKey(v)]
    /\ tries' = [tries EXCEPT ![t] = 1]
    /\ UNCHANGED <<ptr, held>>

\* Thread t returns from the archive; its local variables are gone.
Return(t) ==
    /\ at' = [at EXCEPT ![t] = "idle"]
    /\ val' = [val EXCEPT ![t] = LCM_ARCHIVE_EMPTY]
    /\ own' = [own EXCEPT ![t] = LCM_ARCHIVE_EMPTY]
    /\ key' = [key EXCEPT ![t] = 0]
    /\ tries' = [tries EXCEPT ![t] = 0]

\* Mutant: put tries the same entry until it is free.
SpinOnEntry(t) ==
    /\ at' = [at EXCEPT ![t] = "test"]
    /\ UNCHANGED <<ptr, val, own, key, tries, held>>

\* The end of an iteration that did not get its entry: the next probe, or
\* LCM_RETRY, after which the caller gives up the address.
TryNext(t) ==
    /\ IF tries[t] < LCM_ARCHIVE_NTRY
         THEN /\ at' = [at EXCEPT ![t] = "test"]
              /\ key' = [key EXCEPT ![t] = NextKey(@, tries[t])]
              /\ tries' = [tries EXCEPT ![t] = @ + 1]
              /\ UNCHANGED <<val, own>>
         ELSE Return(t)
    /\ UNCHANGED <<ptr, held>>

\* The test for EMPTY finds the entry taken, or free; or the entry is past
\* the end of the table, and anything may happen.
TestTaken(t) ==
    /\ at[t] = "test"
    /\ key[t] \in Entries
    /\ ptr[key[t]] # LCM_ARCHIVE_EMPTY
    /\ TryNext(t)

TestFree(t) ==
    /\ at[t] = "test"
    /\ IF key[t] \in Entries
         THEN /\ ptr[key[t]] = LCM_ARCHIVE_EMPTY
              /\ at' = [at EXCEPT ![t] = "cas"]
         ELSE at' = [at EXCEPT ![t] = "wild"]
    /\ UNCHANGED <<ptr, val, own, key, tries, held>>

\* put stores its address and returns LCM_SUCCESS with the key.
Succeed(t) ==
    /\ ptr' = [ptr EXCEPT ![key[t]] = val[t]]
    /\ held' = held \cup {[key |-> key[t], own |-> own[t]]}
    /\ Return(t)

\* Mutant: a plain store after the test.
StoreEntry(t) == Succeed(t)

\* __sync_bool_compare_and_swap(&ptr[key].val, EMPTY, value)
ClaimEntry(t) ==
    IF ptr[key[t]] = LCM_ARCHIVE_EMPTY THEN Succeed(t) ELSE TryNext(t)

Cas(t) == at[t] = "cas" /\ ClaimEntry(t)

\* One thread calls LCM_archive_remove with a key that was given out.
Remove(t, h) ==
    /\ at[t] = "idle"
    /\ held' = held \ {h}
    /\ at' = [at EXCEPT ![t] = "read"]
    /\ own' = [own EXCEPT ![t] = h.own]
    /\ key' = [key EXCEPT ![t] = h.key]
    /\ UNCHANGED <<ptr, val, tries>>

\* It reads the entry ...
RemoveRead(t) ==
    /\ at[t] = "read"
    /\ val' = [val EXCEPT ![t] = ptr[key[t]]]
    /\ at' = [at EXCEPT ![t] = "clear"]
    /\ UNCHANGED <<ptr, own, key, tries, held>>

\* Mutant: the entry is not emptied.
LeaveEntry(k) == ptr

\* archive.ptr[key].val = LCM_ARCHIVE_EMPTY
EmptyEntry(k) == [ptr EXCEPT ![k] = LCM_ARCHIVE_EMPTY]

\* ... and empties it.
RemoveClear(t) ==
    /\ at[t] = "clear"
    /\ ptr' = EmptyEntry(key[t])
    /\ Return(t)
    /\ UNCHANGED held

Step(t) ==
    TestTaken(t) \/ TestFree(t) \/ Cas(t) \/ RemoveRead(t) \/ RemoveClear(t)

ArchiveNext == \E t \in Threads :
                   \/ Step(t)
                   \/ \E v \in Values : Put(t, v)
                   \/ \E h \in held : Remove(t, h)

\* A thread inside put or remove keeps running.
ArchiveSpec ==
    /\ LCM_archive_init /\ [][ArchiveNext]_lcmVars
    /\ \A t \in Threads : WF_lcmVars(Step(t))

----------------------------------------------------------------------------
\* Type correctness; a key is an entry unless a probe has left the table.
ArchiveTypeOK ==
    /\ ptr \in [Entries -> Values \cup {LCM_ARCHIVE_EMPTY}]
    /\ at \in [Threads -> {"idle", "test", "cas", "read", "clear", "wild"}]
    /\ val \in [Threads -> Values \cup {LCM_ARCHIVE_EMPTY}]
    /\ own \in [Threads -> Values \cup {LCM_ARCHIVE_EMPTY}]
    /\ key \in [Threads -> Nat]
    /\ tries \in [Threads -> Nat]
    /\ held \subseteq [key : Entries, own : Values]
    /\ \A t \in Threads : at[t] \in {"cas", "read", "clear"} => key[t] \in Entries

\* A key leads to the address it was given for (LCM_archive_get), whatever
\* other threads put and remove; in particular no two keys are equal.
KeyLeadsBack == \A h \in held : ptr[h.key] = h.own

\* remove returns the address that was put, and empties nobody else's entry.
RemoveReturnsOwn ==
    \A t \in Threads : at[t] = "clear" => val[t] = own[t] /\ ptr[key[t]] = own[t]

\* Every entry in use has its key given out or is being removed: none is lost,
\* so put fails only when the entries it tried were really in use.
NothingLost ==
    \A k \in Entries : ptr[k] # LCM_ARCHIVE_EMPTY =>
        \/ \E h \in held : h.key = k
        \/ \E t \in Threads : at[t] \in {"read", "clear"} /\ key[t] = k

\* "Used to map address to key with less bits": every entry a put looks at is
\* one of the 1 << nbits of the table.
InTable == \A t \in Threads : at[t] # "wild"

\* put returns, with a key or with LCM_RETRY, however often it loses a race,
\* unless a probe leaves the table.
PutReturns == \A t \in Threads : at[t] = "test" ~> at[t] \in {"idle", "wild"}
============================================================================
