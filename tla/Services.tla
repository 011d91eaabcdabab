------------------------------ MODULE Services ------------------------------
(***************************************************************************)
(* The parts of the device around its Modbus and upgrade core: the boot    *)
(* loader's rescue, the recording of samples, the log, the web server and  *)
(* the FTP server.  They share no state that their modules do not model    *)
(* within one of them (the web server and FTP use littlefs under the lock  *)
(* of the recording), so a behaviour exercises one, and service says which.*)
(***************************************************************************)
EXTENDS BootCan, History, LogRing, Httpd, Ftpd

CONSTANT ServicesRun    \* the services an instance exercises

VARIABLE service

servicesVars == <<service, bootVars, hVars, logVars, httpVars, ftpVars>>

ServicesInit ==
  /\ service \in ServicesRun
  /\ BootInit /\ HistInit /\ LogInit /\ HttpInit /\ FtpInit

ServicesNext ==
  /\ UNCHANGED service
  /\ \/ service = "boot" /\ BootNext /\ UNCHANGED <<hVars, logVars, httpVars, ftpVars>>
     \/ service = "history" /\ HistNext /\ UNCHANGED <<bootVars, logVars, httpVars, ftpVars>>
     \/ service = "log" /\ LogNext /\ UNCHANGED <<bootVars, hVars, httpVars, ftpVars>>
     \/ service = "http" /\ HttpNext /\ UNCHANGED <<bootVars, hVars, logVars, ftpVars>>
     \/ service = "ftp" /\ FtpNext /\ UNCHANGED <<bootVars, hVars, logVars, httpVars>>

\* FreeRTOS runs every task that is ready, lwIP polls its connections, and time
\* passes.  The boot loader is the only thread.  Nothing is assumed of hosts.
ServicesFairness ==
  /\ WF_bootVars(service = "boot" /\ (Loader \/ ClockTick))
  /\ WF_hVars(service = "history" /\ (HistTask \/ RequestClose))
  /\ WF_httpVars(service = "http" /\ (HttpWork \/ HttpTimers))
  /\ WF_ftpVars(service = "ftp" /\ (FtpTransfer \/ WebProceeds))

ServicesSpec == ServicesInit /\ [][ServicesNext]_servicesVars /\ ServicesFairness

=============================================================================
