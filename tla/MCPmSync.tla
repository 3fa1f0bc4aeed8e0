------------------------------- MODULE MCPmSync -------------------------------
(* PmSync with a source whose writeback leaves fields out, as Notion's     *)
(* takes the title and the status only.                                    *)
EXTENDS PmSync

CONSTANTS r1

(* "外部が前回同期から変わっていないタスクは、Pull で Actio 側の値を上書きしない"    *)
(* (spec/feature/pm/completion.md): a task that did not change outside     *)
(* since the last sync keeps its values in Actio through a pull            *)
(* (sync-project.ts), whatever the writeback leaves out.  Nothing happens  *)
(* during a sync here, and nothing fails.                                  *)
UnsentIsKept == [][UnchangedOutside => row' = row]_pmVars
=============================================================================
