----------------------------- MODULE MCUploads -----------------------------
(* The two threads that upload: that of the synced folders and that of the *)
(* drive, here with its folder tasks.  What they share of filesuploading is *)
(* in PUpload; of the rest they share nothing, so a behaviour is one of the *)
(* two, which `side' chooses.                                              *)
EXTENDS PUpload

CONSTANTS FolderNames, BatchSize, MaxOps, MaxLost, MaxCrashes, MaxForeign, BusyRmdir

VARIABLES
  side,
  rows, deps, folder, fold, wake, pc, batch, sent, answers, wire, srv, nextid, events,
  ops, lost, crashes, foreign, want, misled, refused, badrelease

Drive == INSTANCE FsTasks WITH Names <- FolderNames, at <- sent

folderVars ==
  <<rows, deps, folder, fold, wake, pc, batch, sent, answers, wire, srv, nextid, events,
    ops, lost, crashes, foreign, want, misled, refused, badrelease>>

UploadsInit == side \in {"synced", "drive"} /\ Init /\ Drive!Init
SyncedNext == side = "synced" /\ Next /\ UNCHANGED <<side, folderVars>>
DriveNext == side = "drive" /\ Drive!Next /\ UNCHANGED <<side, vars>>

(* The side that stands still is not asked to go on.                       *)
SyncedFairness ==
  /\ WF_vars(side = "synced" /\ Scanner) /\ WF_vars(side = "synced" /\ process_events)
  /\ WF_vars(side = "synced" /\ UploadThread)
  /\ \A u \in Uploaders : WF_vars(side = "synced" /\ Uploader(u))
  /\ WF_vars(side = "synced" /\ drive # "none" /\ DriveUpload)
DriveFairness ==
  /\ WF_folderVars(side = "drive" /\ Drive!Upload)
  /\ WF_folderVars(side = "drive" /\ Drive!Server)
  /\ WF_folderVars(side = "drive" /\ Drive!process_entries)

UploadsSpec ==
  /\ UploadsInit /\ [][SyncedNext \/ DriveNext]_<<side, vars, folderVars>>
  /\ SyncedFairness /\ DriveFairness

(* The drive's folder tasks end, and client, server and user agree.        *)
Settles == Drive!Settles
=============================================================================
