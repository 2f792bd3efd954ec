----------------------------- MODULE ArchiveKey -----------------------------
\* The keys LCM_archive_put (lcm_archive.h) tries for an address.
EXTENDS Integers

CONSTANT Cap  \* entries of an archive, 1 << nbits

ASSUME CapAssumption == Cap \in Nat \ {0}

LCM_ARCHIVE_NTRY == 3
LCM_ARCHIVE_EMPTY == 0

\* (value >> 6) & ((1 << nbits) - 1)
HashKey(value) == (value \div 64) % Cap

\* key += i * i after the i-th try
NextKey(key, i) == key + i * i
============================================================================
