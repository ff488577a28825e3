----------------------------- MODULE AtCommands -----------------------------
(***************************************************************************)
(* The tasks the driver puts on the queue (at_command.c).                  *)
(*                                                                         *)
(* One operator per at_enqueue_* builder.  It gives the task as the queue  *)
(* sees it: its place (after the head or at the tail), whether it is sent  *)
(* at once, whether the builder runs the queue, and for every command its  *)
(* code, expected result and IGNORE flag.  A parameter stands for the      *)
(* configuration or the argument that selects the commands.  The texts are *)
(* abstracted away; a builder that fails to format one enqueues nothing.   *)
(***************************************************************************)
EXTENDS AtQueue

Cmd(cmd) == Command(cmd, "OK", FALSE)

CmdI(cmd) == Command(cmd, "OK", TRUE)

AtTail(cmds) == Kind(FALSE, FALSE, TRUE, cmds)

AfterHead(cmds) == Kind(TRUE, FALSE, TRUE, cmds)

AtOnce(cmds) == Kind(FALSE, TRUE, TRUE, cmds)

(* at_queue_add alone, always for an at-once task at the tail.             *)
AddOnly(cmds) == Kind(FALSE, TRUE, FALSE, cmds)

(* A builder that decides to enqueue nothing.                              *)
NoTask == AddOnly(<<>>)

If(condition, cmds) == IF condition THEN cmds ELSE <<>>

-----------------------------------------------------------------------------
(* Initialisation.  The common task, then one for the module's maker.      *)
at_enqueue_initialization(reset_modem, cnmi, cpms, csms, vtd) ==
  AtTail(<<Cmd("AT")>> \o If(reset_modem, <<Cmd("Z")>>)
         \o <<Cmd("E"), Cmd("CSCS"), Cmd("CGMI"), Cmd("CGMM"), Cmd("CGMR"), Cmd("CMEE"),
              Cmd("CGSN"), Cmd("CIMI"), Cmd("CPIN"), Cmd("COPS_INIT"), CmdI("CREG_INIT"),
              Cmd("CREG"), CmdI("CNUM"), Cmd("CSCA"), Cmd("CSSN"), Cmd("CMGF")>>
         \o If(cnmi, <<Cmd("CNMI")>>) \o If(cpms, <<Cmd("CPMS")>>)
         \o If(csms, <<Cmd("CSMS")>>) \o If(vtd, <<CmdI("VTD")>>))

at_enqueue_initialization_quectel(dsci, dtmf) ==
  AtTail(<<CmdI("QCCID"), CmdI("QTONEDET_1"), Cmd("CVOICE"),
           CmdI(IF dsci THEN "QINDCFG_CC_OFF" ELSE "DSCI_OFF"),
           Cmd(IF dsci THEN "DSCI" ELSE "QINDCFG_CC"),
           Cmd("QINDCFG_CSQ"), Cmd("QINDCFG_ACT"), Cmd("QINDCFG_RING"),
           CmdI(IF dtmf THEN "QTONEDET_1" ELSE "QTONEDET_0"),
           Cmd("CEREG_INIT"), CmdI("CEREG"), Cmd("FINAL")>>)

at_enqueue_initialization_simcom(dtmf) ==
  AtTail(<<CmdI("CCID"), CmdI("CICCID"), CmdI("CPCMREG"), Cmd("CLCC"), CmdI("CEREG_INIT"),
           CmdI("CEREG"), CmdI("CNSMOD_1"), CmdI("AUTOCSQ_INIT"), CmdI("EXUNSOL_INIT"),
           CmdI("CLTS_INIT"), CmdI(IF dtmf THEN "DDET_1" ELSE "DDET_0"), Cmd("FINAL")>>)

at_enqueue_initialization_other == AtTail(<<Cmd("FINAL")>>)

-----------------------------------------------------------------------------
(* Messages.  A text of n parts is one task of n prompts and n texts.      *)
at_enqueue_sms(parts) ==
  AtTail([i \in 1 .. 2 * parts |->
            IF i % 2 = 1 THEN Command("CMGS", "PROMPT", FALSE) ELSE Cmd("SMSTEXT")])

at_enqueue_ussd == AtTail(<<Cmd("CUSD")>>)

at_enqueue_list_messages == AtTail(<<Cmd("CMGL")>>)

at_enqueue_retrieve_sms == AtTail(<<Cmd("CMGR")>>)

at_enqueue_cmgd == AtTail(<<CmdI("CMGD")>>)

at_enqueue_delete_sms(ack) == AfterHead(If(ack, <<CmdI("CNMA")>>) \o <<CmdI("CMGD")>>)

at_enqueue_msg_direct == AtTail(<<CmdI("CNMI")>>)

at_enqueue_msg_ack == AfterHead(<<CmdI("CNMA")>>)

at_enqueue_msg_ack_n == AfterHead(<<CmdI("CNMA")>>)

at_enqueue_escape == AfterHead(<<Cmd("ESC")>>)

-----------------------------------------------------------------------------
(* Calls.                                                                  *)
at_enqueue_dial(hold_other, clir) ==
  AfterHead(If(hold_other, <<Cmd("CHLD_2")>>) \o If(clir, <<CmdI("CLIR")>>) \o <<CmdI("D")>>)

at_enqueue_answer(waiting) == AfterHead(<<Cmd(IF waiting THEN "CHLD_2x" ELSE "A")>>)

at_enqueue_activate == AfterHead(<<Cmd("CHLD_2x")>>)

at_enqueue_dtmf == AfterHead(<<Cmd("DTMF")>>)

at_enqueue_chup == AfterHead(<<Cmd("CHUP")>>)

at_enqueue_qhup == AfterHead(<<Cmd("QHUP")>>)

at_enqueue_chld1x == AfterHead(<<Cmd("CHLD_1x")>>)

at_enqueue_hangup(one_of_several, qhup) ==
  IF one_of_several THEN at_enqueue_chld1x
  ELSE IF qhup THEN at_enqueue_qhup ELSE at_enqueue_chup

at_enqueue_clcc == AfterHead(<<Cmd("CLCC")>>)

at_enqueue_conference == AfterHead(<<Cmd("CHLD_3")>>)

at_enqueue_mute(on) == AfterHead(<<Cmd(IF on THEN "CMUT_1" ELSE "CMUT_0")>>)

at_hangup_immediately(simcom) == AddOnly(<<Cmd(IF simcom THEN "CHUP" ELSE "QHUP")>>)

-----------------------------------------------------------------------------
(* Audio.                                                                  *)
at_enqueue_enable_tty == AtTail(<<Cmd("QPCMV_TTY")>>)

at_enqueue_enable_uac == AtTail(<<Cmd("QPCMV_UAC")>>)

at_disable_uac_immediately == AddOnly(<<Cmd("QPCMV_0")>>)

(* The second command is AT+CFUN=1,1 under the code CMD_AT_QRXGAIN.        *)
at_enqueue_uac_apply == AtOnce(<<Cmd("QPCMV_0"), Cmd("QRXGAIN")>>)

at_enqueue_query_qgains == AtOnce(<<Cmd("QMIC"), Cmd("QRXGAIN")>>)

at_enqueue_qgains(txgain, rxgain) ==
  AddOnly(If(txgain, <<Cmd("QMIC")>>) \o If(rxgain, <<Cmd("QRXGAIN")>>))

at_enqueue_query_cgains == AtOnce(<<Cmd("COUTGAIN"), Cmd("CMICGAIN")>>)

at_enqueue_cgains(txgain, rxgain) ==
  AddOnly(If(txgain, <<Cmd("COUTGAIN")>>) \o If(rxgain, <<Cmd("CMICGAIN")>>))

at_enqueue_cpcmreg(on) == AfterHead(<<Cmd(IF on THEN "CPCMREG1" ELSE "CPCMREG0")>>)

at_cpcmreg_immediately == AddOnly(<<Cmd("CPCMREG0")>>)

at_enqueue_cpcmfrm(wideband) == AtTail(<<Cmd(IF wideband THEN "CPCMFRM_16K" ELSE "CPCMFRM_8K")>>)

(* Query or set the loop, the mode and the gains: one command each.        *)
at_enqueue_audio_settings ==
  {AtTail(<<Cmd(c)>>) : c \in {"QAUDLOOP", "QAUDMOD", "QMIC", "CMICGAIN", "QRXGAIN", "COUTGAIN"}}

-----------------------------------------------------------------------------
(* Network and service.                                                    *)
at_enqueue_cspn_cops == AtTail(<<CmdI("CSPN"), CmdI("COPS")>>)

at_enqueue_qspn_qnwinfo == AtOnce(<<CmdI("QSPN"), CmdI("AT")>>)

at_enqueue_set_ccwa(set) == AtTail(If(set, <<CmdI("CCWA_SET")>>) \o <<CmdI("CCWA_STATUS")>>)

at_enqueue_csq == AtTail(<<CmdI("CSQ")>>)

at_enqueue_reset == AtTail(<<Cmd("CFUN")>>)

at_enqueue_user_cmd == AfterHead(<<Cmd("USER")>>)

at_enqueue_at == AfterHead(<<Cmd("AT")>>)

at_enqueue_qlts_1 == AfterHead(<<Cmd("QLTS_1")>>)

at_enqueue_cclk_query == AfterHead(<<Cmd("CCLK")>>)

(* Without query_time a bare AT, with it the module's time query.          *)
at_enqueue_ping == {at_enqueue_at, at_enqueue_qlts_1, at_enqueue_cclk_query}
=============================================================================
