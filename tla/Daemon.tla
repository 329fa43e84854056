------------------------------ MODULE Daemon ------------------------------
(***************************************************************************)
(* The daemon as a process and what serves its operator, model-checked     *)
(* together: its life (Lifecycle), sessions (Sessions), settings           *)
(* (Settings), the datagrams it passes on (UdpLink), the records it        *)
(* decodes (ConsoleDecoder) and the stream a page keeps (StreamClient).    *)
(*                                                                         *)
(* They have no variable in common: as in Archive, a behaviour exercises   *)
(* one of them.  Where one depends on another, the module itself has the   *)
(* other's steps: sessions and settings survive the end of the process at  *)
(* any step, and the forwarder its closing.                                *)
(***************************************************************************)
EXTENDS Sessions, Settings, Lifecycle, UdpLink, ConsoleDecoder,
        StreamClient

VARIABLE part       \* the component that moves

daemonVars == <<sessionVars, settingsVars, lifecycleVars, udpVars, decoderVars,
                clientVars, part>>

DaemonInit ==
    /\ part \in {"sessions", "settings", "lifecycle", "udp", "decoder", "client"}
    /\ SessionsInit /\ SettingsInit /\ LifecycleInit /\ UdpLinkInit /\ DecoderInit
    /\ StreamClientInit

LifecycleMain ==
    /\ part = "lifecycle" /\ Main
    /\ UNCHANGED <<sessionVars, settingsVars, udpVars, decoderVars, clientVars, part>>

DaemonNext ==
    /\ \/ /\ part = "sessions" /\ SessionsNext
          /\ UNCHANGED <<settingsVars, lifecycleVars, udpVars, decoderVars, clientVars>>
       \/ /\ part = "settings" /\ SettingsNext
          /\ UNCHANGED <<sessionVars, lifecycleVars, udpVars, decoderVars, clientVars>>
       \/ /\ part = "lifecycle" /\ LifecycleNext
          /\ UNCHANGED <<sessionVars, settingsVars, udpVars, decoderVars, clientVars>>
       \/ /\ part = "udp" /\ UdpLinkNext
          /\ UNCHANGED <<sessionVars, settingsVars, lifecycleVars, decoderVars, clientVars>>
       \/ /\ part = "decoder" /\ DecoderNext
          /\ UNCHANGED <<sessionVars, settingsVars, lifecycleVars, udpVars, clientVars>>
       \/ /\ part = "client" /\ StreamClientNext
          /\ UNCHANGED <<sessionVars, settingsVars, lifecycleVars, udpVars, decoderVars>>
    /\ UNCHANGED part

\* main goes on while its process runs; nothing else has to happen.
DaemonSpec == DaemonInit /\ [][DaemonNext]_daemonVars /\ WF_daemonVars(LifecycleMain)

\* Types of the six components.
DaemonTypeOK ==
    /\ SessionsTypeOK /\ SettingsTypeOK /\ LifecycleTypeOK /\ UdpLinkTypeOK /\ DecoderTypeOK
    /\ StreamClientTypeOK
=============================================================================
