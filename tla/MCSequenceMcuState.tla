------------------------ MODULE MCSequenceMcuState ------------------------
(***************************************************************************)
(* SequenceMcuState for TLC: a running, a sleeping and a switched-off host *)
(* and a state byte no table lists, with two causes each for the two ends. *)
(***************************************************************************)
EXTENDS SequenceMcuState

MCReports ==
  {<<kSLP_S0, kCause_PowerUpPushbutton>>, <<kSLP_S0, kCause_ResetPushbutton>>,
   <<kSLP_S3, kCause_Unknown>>,
   <<kSLP_S5, kCause_ChassisControl>>, <<kSLP_S5, kCause_Unknown>>,
   <<7, kCause_Oem>>}

\* A host that is running or switched off.
OnOffReports ==
  {<<kSLP_S0, kCause_PowerUpPushbutton>>, <<kSLP_S5, kCause_ChassisControl>>}
=============================================================================
