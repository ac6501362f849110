------------------------------ MODULE MCSidecar ------------------------------
(* An agent in a pane: three commands and a reload, or two of each.        *)
EXTENDS Sidecar

MCNext == Next /\ Len(commands') + reloads' <= 4
MCSpec == Init /\ [][MCNext]_vars /\ Fairness
=============================================================================
