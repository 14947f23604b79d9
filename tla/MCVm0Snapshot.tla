---------------------------- MODULE MCVm0Snapshot ----------------------------
(* Two VMs, of which vm-1 also makes the profiles.  SafeFailing is every    *)
(* step but those between the storage's commit and the move of the saved    *)
(* memory; AnyFailing has these as well.                                    *)
EXTENDS Vm0Snapshot

SafeFailing == {"delete", "create", "boot", "snapshot", "tank", "receive", "unpack",
                "initialize", "launch", "commit", "profile", "discard", "remove",
                "clone", "mark", "revert", "start", "run"}

AnyFailing == SafeFailing \cup {"resnapshot", "drop", "move"}
==============================================================================
