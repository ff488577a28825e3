---------------------------- MODULE MCAtSession -----------------------------
(***************************************************************************)
(* Small instances of AtSession for TLC.  All tasks are ones the driver    *)
(* really builds (AtCommands).                                             *)
(***************************************************************************)
EXTENDS AtSession

None == {}

(* Ordinary traffic: a text message, a call that puts another on hold, a   *)
(* command from the console.                                               *)
Traffic == {at_enqueue_sms(1), at_enqueue_dial(TRUE, TRUE), at_enqueue_user_cmd}

(* A message, and gains in one line.                                       *)
MessageOrGains == {at_enqueue_sms(1), at_enqueue_query_qgains}

Hangup == {Tasks1(at_hangup_immediately(FALSE))}

Acks == {Tasks1(at_enqueue_msg_ack), Tasks0}

Ping == {at_enqueue_at}

Booting == {at_enqueue_initialization(TRUE, TRUE, FALSE, FALSE, TRUE)}

Quectel == {at_enqueue_initialization_quectel(TRUE, TRUE)}

Others == {at_enqueue_initialization_other}

(* The common task with the commands between CGMI and the end left out:    *)
(* they behave like CGMI.                                                  *)
ShortInit == {AtTail(<<Cmd("AT"), Cmd("CGMI"), Cmd("CGMM"), CmdI("VTD")>>)}

(* The end of initialisation alone, for runs about what follows.           *)
Booted == {AtTail(<<Cmd("FINAL")>>)}

AnyChatter == {"URC", "UNKNOWN"}

Unknown == {"UNKNOWN"}

Models == {at_enqueue_initialization_simcom(FALSE)}

JustUrc == {"URC"}

Nothing == {Tasks0}

Successes == {"OK", "PROMPT"}

(* What a caller may ask of a ready device, one task of each shape: the    *)
(* place, the urgency, the number of commands, what they expect and        *)
(* whether their errors are ignored.                                       *)
Catalogue ==
  {at_enqueue_sms(2), at_enqueue_ussd, at_enqueue_msg_direct, at_enqueue_dial(TRUE, TRUE),
   at_enqueue_answer(FALSE), at_enqueue_hangup(FALSE, TRUE), at_enqueue_cpcmreg(FALSE),
   at_enqueue_uac_apply, at_enqueue_qgains(TRUE, FALSE), at_enqueue_cgains(TRUE, TRUE)}

(* The other builders, whose tasks have the shape of one of these.         *)
Singles ==
  {at_enqueue_list_messages, at_enqueue_cmgd, at_enqueue_answer(TRUE), at_enqueue_activate,
   at_enqueue_dtmf, at_enqueue_hangup(TRUE, TRUE), at_enqueue_hangup(FALSE, FALSE),
   at_enqueue_conference, at_enqueue_mute(TRUE), at_enqueue_query_cgains,
   at_enqueue_set_ccwa(FALSE)} \cup at_enqueue_audio_settings

(* What needs no more than a connected one.                                *)
Service == {at_enqueue_reset, at_enqueue_user_cmd}

(* What unsolicited lines lead to.                                         *)
Unsolicited ==
  {Tasks0, Tasks1(at_enqueue_clcc), Tasks1(at_enqueue_retrieve_sms), Tasks1(at_enqueue_msg_ack_n),
   Tasks1(at_enqueue_delete_sms(FALSE)), Tasks1(at_enqueue_cspn_cops),
   Tasks4(at_enqueue_qspn_qnwinfo, at_enqueue_set_ccwa(TRUE), NoTask, NoTask)}

Goodbyes == {Tasks4(at_hangup_immediately(TRUE), at_cpcmreg_immediately, NoTask, NoTask),
             Tasks1(at_disable_uac_immediately)}

GainQuery == {at_enqueue_query_qgains}

Hangups == {Tasks0, Tasks1(at_hangup_immediately(FALSE))}
=============================================================================
