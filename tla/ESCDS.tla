-------------------------------- MODULE ESCDS --------------------------------
(***************************************************************************)
(* The ES Critical Data Store (spec.md 2, 4.2, 4.3, 7): a persistent       *)
(* region that survives a processor reset.  It holds begin/end sentinels, *)
(* a copy of the registry of named blocks, and the blocks themselves,     *)
(* each behind a descriptor with the used flag and the CRC of its data.    *)
(*                                                                         *)
(* The ES source is not in the repository.  The actions follow spec 4.2/   *)
(* 4.3 and what TestCDS, TestCDSMempool and TestAPI (es_UT.c) assert of     *)
(* CFE_ES_CDS_EarlyInit, CFE_ES_RebuildCDS, CFE_ES_InitializeCDS,          *)
(* CFE_ES_RegisterCDS, CFE_ES_CopyToCDS / CFE_ES_CDSBlockWrite,             *)
(* CFE_ES_RestoreFromCDS / CFE_ES_CDSBlockRead and CFE_ES_DeleteCDS.        *)
(*                                                                         *)
(* Each name has its own block; where the pool places it is ESMemPool's    *)
(* kind of question and is not repeated here.  A CRC is abstracted to the  *)
(* value it was computed over, so a block reads back intact exactly when   *)
(* its descriptor's CRC equals its data.  Every call runs under the ES     *)
(* shared-data mutex and is one step.  A persistent write (CFE_PSP_        *)
(* WriteToCDS) or read can fail, up to MaxMediaErrors times.  A processor  *)
(* reset can strike between the descriptor and the payload write of a      *)
(* block.                                                                  *)
(***************************************************************************)
EXTENDS Naturals, FiniteSets

CONSTANTS
  Names,          \* CDS names apps register
  Values,         \* data apps copy into their blocks
  Sizes,          \* valid block sizes requested
  MaxEntries,     \* CFE_PLATFORM_ES_CDS_MAX_NUM_ENTRIES
  MaxResets,      \* bound on resets
  MaxMediaErrors  \* bound on failed CDS reads and writes

NONE == "NONE"                 \* no block / no restore this step
PLACEHOLDER == "PLACEHOLDER"   \* the CRC a new block's descriptor is given
TORN == "TORN"                 \* ghost: the last copy did not complete

Entry == [taken : BOOLEAN, size : Sizes \cup {0}]
Block == [used : BOOLEAN, crc : Values \cup {PLACEHOLDER},
          data : Values \cup {NONE}]
FreeEntry == [taken |-> FALSE, size |-> 0]
EmptyRegistry == [n \in Names |-> FreeEntry]

VARIABLES
  pValid,     \* the sentinels _CDSBeg_/_CDSEnd_ are in place (persistent)
  pReg,       \* the registry copy in the CDS (persistent)
  pBlk,       \* each name's block descriptor and data (persistent)
  up,         \* CFE_ES_CDS_EarlyInit has run since the last reset
  avail,      \* the CDS is usable this boot
  reg,        \* CFE_ES_Global.CDSVars.Registry (RAM)
  mediaErrs,  \* failed CDS accesses so far
  resets,     \* resets so far
  copied,     \* ghost: per name, the value its block must read back as
  committed,  \* ghost: per name, a RegisterCDS of it returned CFE_SUCCESS
  lastInit,   \* ghost: how the last EarlyInit left the CDS
  restored    \* ghost: what a RestoreFromCDS of this step returned, or {}

Taken(r) == {m \in Names : r[m].taken}

\* A registry slot is free (else CFE_ES_CDS_REGISTRY_FULL).
(* Mutant: the count compared with <= instead of <. *)
HasFreeEntryOffByOne(r) == Cardinality(Taken(r)) <= MaxEntries

HasFreeEntry(r) == Cardinality(Taken(r)) < MaxEntries

vars == <<pValid, pReg, pBlk, up, avail, reg, mediaErrs, resets,
          copied, committed, lastInit, restored>>

TypeOK ==
  /\ pValid \in BOOLEAN
  /\ pReg \in [Names -> Entry]
  /\ pBlk \in [Names -> Block]
  /\ up \in BOOLEAN /\ avail \in BOOLEAN
  /\ reg \in [Names -> Entry] /\ Cardinality(Taken(reg)) <= MaxEntries
  /\ mediaErrs \in 0..MaxMediaErrors
  /\ resets \in 0..MaxResets
  /\ copied \in [Names -> Values \cup {NONE, TORN}]
  /\ committed \in [Names -> BOOLEAN]
  /\ lastInit \in {NONE, "REBUILT", "REINIT", "FAILED"}
  /\ restored \subseteq [n : Names, v : Values \cup {NONE}] /\ Cardinality(restored) <= 1

\* Power-on: the region is not yet formatted and ES has not started.
Init ==
  /\ pValid = FALSE
  /\ pReg = EmptyRegistry
  /\ pBlk = [n \in Names |-> [used |-> FALSE, crc |-> PLACEHOLDER, data |-> NONE]]
  /\ up = FALSE /\ avail = FALSE
  /\ reg = EmptyRegistry
  /\ mediaErrs = 0 /\ resets = 0
  /\ copied = [n \in Names |-> NONE]
  /\ committed = [n \in Names |-> FALSE]
  /\ lastInit = NONE
  /\ restored = {}

\* A CDS read or write fails.
MediaError == mediaErrs < MaxMediaErrors /\ mediaErrs' = mediaErrs + 1

-----------------------------------------------------------------------------
(* Start-up.                                                               *)

\* CFE_ES_InitializeCDS: clear the region, write the sentinels and an
\* empty registry.  Every block is lost.
Cleared ==
  /\ pReg' = EmptyRegistry
  /\ pBlk' = [n \in Names |-> [pBlk[n] EXCEPT !.used = FALSE]]
  /\ reg' = EmptyRegistry
  /\ copied' = [n \in Names |-> NONE]
  /\ committed' = [n \in Names |-> FALSE]

Reinitialized ==
  /\ Cleared
  /\ pValid' = TRUE
  /\ avail' = TRUE
  /\ lastInit' = "REINIT"
  /\ UNCHANGED mediaErrs

\* CFE_ES_CDS_EarlyInit.  The sentinels are read; when they are in place
\* the registry is rebuilt from its copy (CFE_ES_RebuildCDS) and the blocks
\* are kept; when they are not, or the rebuild fails, the region is
\* initialized from scratch and EarlyInit still returns CFE_SUCCESS.  A
\* failed read of the sentinels, or a failed write while clearing, makes
\* EarlyInit fail and leaves the CDS unusable for this boot.
EarlyInit ==
  /\ ~up
  /\ up' = TRUE
  /\ \/ /\ pValid
        /\ reg' = pReg
        /\ avail' = TRUE
        /\ lastInit' = "REBUILT"
        /\ UNCHANGED <<pValid, pReg, pBlk, mediaErrs, copied, committed>>
     \/ /\ pValid
        /\ MediaError               \* registry unreadable
        /\ Cleared /\ pValid' = TRUE /\ avail' = TRUE /\ lastInit' = "REINIT"
     \/ ~pValid /\ Reinitialized
     \/ /\ MediaError               \* sentinel read fails
        /\ avail' = FALSE /\ lastInit' = "FAILED"
        /\ UNCHANGED <<pValid, pReg, pBlk, reg, copied, committed>>
     \/ /\ ~pValid
        /\ MediaError               \* a write while clearing fails
        /\ Cleared /\ pValid' = FALSE /\ avail' = FALSE /\ lastInit' = "FAILED"
  /\ restored' = {}
  /\ UNCHANGED resets

\* A processor reset: RAM is lost, the CDS is kept.
ProcessorReset ==
  /\ up
  /\ resets < MaxResets
  /\ resets' = resets + 1
  /\ up' = FALSE /\ avail' = FALSE
  /\ reg' = EmptyRegistry
  /\ restored' = {}
  /\ UNCHANGED <<pValid, pReg, pBlk, mediaErrs, copied, committed, lastInit>>

\* A power-on reset: the CDS contents are lost with the power.
PowerOnReset ==
  /\ up
  /\ resets < MaxResets
  /\ resets' = resets + 1
  /\ up' = FALSE /\ avail' = FALSE
  /\ pValid' = FALSE
  /\ Cleared
  /\ restored' = {}
  /\ UNCHANGED <<mediaErrs, lastInit>>

-----------------------------------------------------------------------------
(* Registry and block calls.                                               *)

Usable == up /\ avail

\* CFE_ES_UpdateCDSRegistry: the whole RAM registry is written to the CDS.
(* Mutant: the registry is written before the new entry is put in it. *)
RegistryWrittenStale(newReg) == pReg' = reg

RegistryWritten(newReg) == pReg' = newReg

\* The registry write either succeeds or fails and leaves the old copy.
UpdateCDSRegistry(newReg, n) ==
  \/ /\ RegistryWritten(newReg)
     /\ committed' = [committed EXCEPT ![n] = TRUE]
     /\ UNCHANGED mediaErrs
  \/ MediaError /\ UNCHANGED <<pReg, committed>>

\* CFE_ES_RegisterCDS of a new name, or of a known name with a new size
\* (the old block is freed and a new one allocated): CFE_ES_GetCDSBlock
\* writes a fresh descriptor with a placeholder CRC, the entry is filled
\* in, and the registry is written; OS_ERROR when that write fails.
RegisterNew(n, sz) ==
  /\ \/ reg[n].taken /\ reg[n].size # sz /\ pBlk[n].used
     \/ ~reg[n].taken /\ HasFreeEntry(reg)
  /\ LET newReg == [reg EXCEPT ![n] = [taken |-> TRUE, size |-> sz]] IN
       /\ reg' = newReg
       /\ UpdateCDSRegistry(newReg, n)
  /\ pBlk' = [pBlk EXCEPT ![n] = [used |-> TRUE, crc |-> PLACEHOLDER, data |-> @.data]]
  /\ copied' = [copied EXCEPT ![n] = NONE]

\* CFE_ES_RegisterCDS returning without a change: CFE_ES_CDS_ALREADY_EXISTS
\* for a known name and size, CFE_ES_CDS_REGISTRY_FULL, or
\* CFE_ES_ERR_MEM_HANDLE when the old block will not free.
RegisterUnchanged(n, sz) ==
  /\ \/ reg[n].taken /\ reg[n].size = sz
     \/ ~reg[n].taken /\ ~HasFreeEntry(reg)
     \/ reg[n].taken /\ reg[n].size # sz /\ ~pBlk[n].used
  /\ UNCHANGED mediaErrs
  /\ UNCHANGED <<pReg, pBlk, reg, copied, committed>>

\* CFE_ES_RegisterCDS when CFE_ES_GetCDSBlock fails to read or write the
\* CDS (CFE_ES_CDS_ACCESS_ERROR).  For a new name nothing has changed yet.
\* For a known name with a new size the old block was already returned by
\* CFE_ES_PutCDSBlock, so the entry, still registered in RAM and in the
\* CDS, is left without a block.
RegisterAccessError(n, sz) ==
  /\ MediaError
  /\ \/ /\ reg[n].taken /\ reg[n].size # sz /\ pBlk[n].used
        /\ pBlk' = [pBlk EXCEPT ![n].used = FALSE]
        /\ copied' = [copied EXCEPT ![n] = NONE]
     \/ /\ ~reg[n].taken /\ HasFreeEntry(reg)
        /\ UNCHANGED <<pBlk, copied>>
  /\ UNCHANGED <<pReg, reg, committed>>

\* CFE_ES_RegisterCDS when this boot has no usable CDS: an error status
\* (CFE_ES_NOT_IMPLEMENTED with no CDS pool), and nothing changes.
RegisterNoCDS ==
  /\ ~avail
  /\ UNCHANGED <<mediaErrs, pReg, pBlk, reg, copied, committed>>

RegisterCDS ==
  /\ up
  /\ \/ /\ avail
        /\ \E n \in Names, sz \in Sizes :
             \/ RegisterNew(n, sz)
             \/ RegisterUnchanged(n, sz)
             \/ RegisterAccessError(n, sz)
     \/ RegisterNoCDS
  /\ restored' = {}
  /\ UNCHANGED <<pValid, up, avail, resets, lastInit>>

\* CFE_ES_CopyToCDS through CFE_ES_CDSBlockWrite: the descriptor is read
\* and checked (ERR_MEM_HANDLE on an unused block), then written with the
\* CRC of the new data, then the data is written.  A failed write of the
\* data, or a reset after the descriptor write, leaves a descriptor whose
\* CRC does not match the data unless the data was already the same.
AfterTornCopy(n, v) ==
  /\ pBlk' = [pBlk EXCEPT ![n].crc = v]
  /\ copied' = [copied EXCEPT ![n] = IF pBlk[n].data = v THEN v ELSE TORN]

CopyToCDS ==
  /\ Usable
  /\ \E n \in Names, v \in Values :
       /\ reg[n].taken
       /\ pBlk[n].used
       /\ \/ /\ pBlk' = [pBlk EXCEPT ![n] = [@ EXCEPT !.crc = v, !.data = v]]
             /\ copied' = [copied EXCEPT ![n] = v]
             /\ UNCHANGED <<mediaErrs, up, avail, reg, resets>>
          \/ MediaError /\ UNCHANGED <<pBlk, copied, up, avail, reg, resets>>
          \/ MediaError /\ AfterTornCopy(n, v) /\ UNCHANGED <<up, avail, reg, resets>>
          \/ /\ resets < MaxResets
             /\ AfterTornCopy(n, v)
             /\ resets' = resets + 1
             /\ up' = FALSE /\ avail' = FALSE /\ reg' = EmptyRegistry
             /\ UNCHANGED mediaErrs
  /\ restored' = {}
  /\ UNCHANGED <<pValid, pReg, committed, lastInit>>

\* CFE_ES_CDSBlockRead's checks: the block is in use and the CRC computed
\* over its data equals the descriptor's (else CFE_ES_CDS_BLOCK_CRC_ERR).
(* Mutant: the CRC is not compared. *)
ReadsBackNoCRC(b) == b.used

ReadsBack(b) == b.used /\ b.crc = b.data

\* CFE_ES_RestoreFromCDS: the data is returned when it reads back intact;
\* otherwise an error and no data.  A failed CDS read is also an error.
RestoreFromCDS ==
  /\ Usable
  /\ \E n \in Names :
       /\ reg[n].taken
       /\ \/ ReadsBack(pBlk[n]) /\ restored' = {[n |-> n, v |-> pBlk[n].data]}
                                /\ UNCHANGED mediaErrs
          \/ ~ReadsBack(pBlk[n]) /\ restored' = {} /\ UNCHANGED mediaErrs
          \/ MediaError /\ restored' = {}
  /\ UNCHANGED <<pValid, pReg, pBlk, up, avail, reg, resets, copied, committed, lastInit>>

\* CFE_ES_DeleteCDS (and the DeleteCDS command) of a name whose owner is
\* not running: CFE_ES_PutCDSBlock marks the block unused, then the entry
\* is freed in RAM and the registry written; -1 when that write fails.
DeleteFreed(n) ==
  /\ reg[n].taken
  /\ pBlk[n].used
  /\ pBlk' = [pBlk EXCEPT ![n].used = FALSE]
  /\ LET newReg == [reg EXCEPT ![n] = FreeEntry] IN
       /\ reg' = newReg
       /\ \/ RegistryWritten(newReg) /\ UNCHANGED mediaErrs
          \/ MediaError /\ UNCHANGED pReg
  /\ copied' = [copied EXCEPT ![n] = NONE]
  /\ committed' = [committed EXCEPT ![n] = FALSE]

\* CFE_ES_DeleteCDS returning without a change: the name is not registered,
\* its owner is still running (CFE_ES_CDS_OWNER_ACTIVE_ERR), its block will
\* not free (ERR_MEM_HANDLE), or the descriptor cannot be written.
DeleteUnchanged(n) ==
  /\ \/ ~reg[n].taken
     \/ reg[n].taken                    \* owner active
     \/ reg[n].taken /\ ~pBlk[n].used
  /\ UNCHANGED <<mediaErrs, pReg, pBlk, reg, copied, committed>>

DeleteCDS ==
  /\ Usable
  /\ \E n \in Names :
       \/ DeleteFreed(n)
       \/ DeleteUnchanged(n)
       \/ reg[n].taken /\ MediaError /\ UNCHANGED <<pReg, pBlk, reg, copied, committed>>
  /\ restored' = {}
  /\ UNCHANGED <<pValid, up, avail, resets, lastInit>>

Next ==
  \/ EarlyInit
  \/ ProcessorReset
  \/ PowerOnReset
  \/ RegisterCDS
  \/ CopyToCDS
  \/ RestoreFromCDS
  \/ DeleteCDS

Spec == Init /\ [][Next]_vars

-----------------------------------------------------------------------------
(* Properties.                                                             *)

\* RestoreFromCDS never returns stale data: when it returns data, that is
\* the value of the last CopyToCDS of the name that completed, since its
\* block was last allocated, across any resets, torn copies (a failed data
\* write, or a reset between descriptor and data) and re-registrations.
RestoreNeverStale ==
  \A r \in restored : r.v = copied[r.n]

\* A name whose registration returned CFE_SUCCESS, and that was not deleted
\* since, is still registered after a processor reset that rebuilt the
\* registry from the CDS, and its block still holds its last copied value
\* (a re-registration with a new size that fails with an access error has
\* freed the block and reported it, so no value is then owed).
DataSurvivesReset ==
  up /\ lastInit = "REBUILT" =>
    \A n \in Names :
      committed[n] =>
        /\ reg[n].taken
        /\ copied[n] \in Values => ReadsBack(pBlk[n]) /\ pBlk[n].data = copied[n]

\* Every registered name has a block in use: CopyToCDS and RestoreFromCDS
\* of a registered name never fail with ERR_MEM_HANDLE because its block
\* was freed (spec 4.2: a failed registry write on delete leaves the
\* registry consistent; a failed re-registration is an error, not a
\* registered name without storage).
RegisteredNamesUsable ==
  \A n \in Names : reg[n].taken => pBlk[n].used

=============================================================================
