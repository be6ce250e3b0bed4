-------------------------- MODULE DaemonPartsProofs --------------------------
(***************************************************************************)
(* Proofs about the parts of the daemon that share no state, taken         *)
(* together: what a behaviour of all of them shows of one part is a        *)
(* behaviour of that part, so that every theorem about a part alone holds  *)
(* of the whole.                                                           *)
(***************************************************************************)
EXTENDS MCDaemonParts, ImapSmtpProofs, GraphProofs, HostImageProofs

-----------------------------------------------------------------------------
(* The parts and their whole                                               *)

PartsSteps ==
    /\ [ImapNext]_imapVars /\ [SendNext]_sendVars /\ [ActionNext]_actionVars
    /\ [FolderNext]_folderVars /\ [HostNext]_hostVars /\ [AvatarNext]_avatarVars

LEMMA PartsStart ==
  PartsInit => ImapInit /\ SendInit /\ ActionInit /\ FolderInit /\ HostInit /\ AvatarInit
  BY DEF PartsInit

\* One part moves, the others keep every variable they have.
LEMMA PartsStep == [PartsNext]_partVars => PartsSteps
  <1> SUFFICES ASSUME [PartsNext]_partVars PROVE PartsSteps
    OBVIOUS
  <1>1. CASE UNCHANGED partVars
    BY <1>1 DEF PartsSteps, partVars, providerVars
  <1>2. CASE part = "imap" /\ ImapNext
                /\ UNCHANGED <<sendVars, actionVars, folderVars, hostVars, avatarVars>>
    BY <1>2 DEF PartsSteps
  <1>3. CASE part = "submission" /\ SendNext
                /\ UNCHANGED <<imapVars, actionVars, folderVars, hostVars, avatarVars>>
    BY <1>3 DEF PartsSteps
  <1>4. CASE part = "action" /\ ActionNext
                /\ UNCHANGED <<imapVars, sendVars, folderVars, hostVars, avatarVars>>
    BY <1>4 DEF PartsSteps
  <1>5. CASE part = "folders" /\ FolderNext
                /\ UNCHANGED <<imapVars, sendVars, actionVars, hostVars, avatarVars>>
    BY <1>5 DEF PartsSteps
  <1>6. CASE part = "process" /\ HostNext /\ UNCHANGED <<providerVars, avatarVars>>
    BY <1>6 DEF PartsSteps, providerVars
  <1>7. CASE part = "images" /\ AvatarNext /\ UNCHANGED <<providerVars, hostVars>>
    BY <1>7 DEF PartsSteps, providerVars
  <1> QED
    BY <1>1, <1>2, <1>3, <1>4, <1>5, <1>6, <1>7 DEF PartsNext

\* The parts of the daemon do not disturb each other: whatever the whole does,
\* each part sees a behaviour of its own specification, be it the IMAP sessions,
\* the submissions, the Graph requests and folders, the processes, or the images.
THEOREM PartsAlone ==
  PartsSpec => ImapSpec /\ SendSpec /\ ActionSpec /\ FolderSpec /\ HostSpec /\ AvatarSpec
  <1>1. PartsSteps => /\ [ImapNext]_imapVars /\ [SendNext]_sendVars /\ [ActionNext]_actionVars
                      /\ [FolderNext]_folderVars /\ [HostNext]_hostVars /\ [AvatarNext]_avatarVars
    BY DEF PartsSteps
  <1> QED
    BY <1>1, PartsStart, PartsStep, PTL
       DEF PartsSpec, ImapSpec, SendSpec, ActionSpec, FolderSpec, HostSpec, AvatarSpec

\* Every variable of every part keeps its type, whichever part runs.
THEOREM PartsTypeCorrect == PartsSpec => []PartsTypeOK
  <1>1. /\ ImapTypeOK /\ SendTypeOK /\ ActionTypeOK /\ FolderTypeOK
        /\ HostTypeOK /\ AvatarTypeOK
        => PartsTypeOK
    BY DEF PartsTypeOK
  <1> QED
    BY <1>1, PartsAlone, SessionTypeCorrect, SubmissionTypeCorrect, ActionTypeCorrect,
       FolderTypeCorrect, HostTypeCorrect, AvatarTypeCorrect, PTL

=============================================================================
