---------------------------- MODULE BatchImageJob ----------------------------
(* The status machine of a batch image job (service/batch_image.go).        *)
CONSTANT Jobs           \* batch ids

ActiveStatuses   == {"created", "uploading", "submitted", "running", "indexing", "settling"}
TerminalStatuses == {"completed", "failed", "cancelled", "output_deleted"}
Statuses         == ActiveStatuses \union TerminalStatuses

IsTerminal(s) == s \in TerminalStatuses

CanTransition(from, to) ==
    \/ IsTerminal(from) /\ from # "output_deleted" /\ to = "output_deleted"
    \/ ~IsTerminal(from) /\ to = "failed"
    \/ <<from, to>> \in
         {<<"created", "uploading">>, <<"created", "submitted">>, <<"created", "cancelled">>,
          <<"uploading", "submitted">>, <<"uploading", "cancelled">>,
          <<"submitted", "running">>, <<"submitted", "indexing">>, <<"submitted", "cancelled">>,
          <<"running", "running">>, <<"running", "indexing">>, <<"running", "cancelled">>,
          <<"indexing", "settling">>,
          <<"settling", "completed">>}
=============================================================================
