----------------------------- MODULE Rendezvous -----------------------------
(***************************************************************************)
(* The three rendezvous benchmarks over one state: all of them keep        *)
(* contexts on the heap, one of them an archive of their addresses too.    *)
(***************************************************************************)
EXTENDS RdvCommon, ArchiveKey

\* malloc never returns a null pointer, the archive's mark for an empty entry.
ASSUME CtxAssumption == Ctx \subseteq Nat \ {LCM_ARCHIVE_EMPTY}

VARIABLE recv_ctx_archive  \* see RdvWriteImm

archiveVars == <<rdvVars, recv_ctx_archive>>

RW == INSTANCE RdvWrite
RWI == INSTANCE RdvWriteImm
RR == INSTANCE RdvRead
=============================================================================
