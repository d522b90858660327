------------------------------ MODULE AsmLogs -------------------------------
(***************************************************************************)
(* The logs a block's manifest carries: one constructor per log type, the  *)
(* type id that tells them apart on the wire, and the one log the ASM reads *)
(* back itself, the upgrade of its own predicate.                          *)
(***************************************************************************)
EXTENDS Integers, Sequences, TLC

(* The wire tag of each log type; 2 is reserved. *)
AsmLogTypeId ==
    "Deposit" :> 1 @@ "ForcedInclusion" :> 2 @@ "CheckpointTipUpdate" :> 3 @@
    "EePredicateKeyUpdate" :> 4 @@ "CheckpointPredicateEnacted" :> 5 @@
    "AsmStfUpdate" :> 11 @@ "NewExportEntry" :> 12 @@ "ExportExtraDataUpdate" :> 13

(* An entry is a typed message; it reads back as its own type only. *)
from_log(type, body) == <<AsmLogTypeId[type], body>>
try_into_log(entry, type) == entry[1] = AsmLogTypeId[type]

DepositLog(destination, amount) == from_log("Deposit", <<destination, amount>>)
CheckpointTipUpdate(tip) == from_log("CheckpointTipUpdate", tip)
EePredicateKeyUpdate(account, key) == from_log("EePredicateKeyUpdate", <<account, key>>)
CheckpointPredicateEnacted(key) == from_log("CheckpointPredicateEnacted", key)
AsmStfUpdate(key) == from_log("AsmStfUpdate", key)
NewExportEntry(container, leaf) == from_log("NewExportEntry", <<container, leaf>>)
ExportExtraDataUpdate(container, data) == from_log("ExportExtraDataUpdate", <<container, data>>)

(* The first upgrade of the block counts; without one the predicate is carried forward. *)
extract_next_predicate_from_logs(entries, current) ==
    LET updates == SelectSeq(entries, LAMBDA e : try_into_log(e, "AsmStfUpdate"))
    IN  IF updates = <<>> THEN current ELSE Head(updates)[2]
=============================================================================
