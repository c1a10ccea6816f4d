-------------------------- MODULE MCPluginManager ---------------------------
(***************************************************************************)
(* Instances of PluginManager.                                             *)
(***************************************************************************)
EXTENDS PluginManager

Deployment(boot, discovery, configs) ==
    [boot |-> boot, discovery |-> discovery, configs |-> configs]

\* Everything in the boot configuration; everything discovered, at once; the status
\* plugin configured after the others.
MCDeployments ==
    {Deployment({Bundle, Logs, Status}, "no", {}),
     Deployment({}, "yes", {{Bundle, Logs, Status}}),
     Deployment({}, "yes", {{Bundle}, {Bundle, Status}})}

\* The status plugin configured before the bundle plugin.
StatusFirst == {Deployment({}, "yes", {{Status}, {Bundle, Status}})}
=============================================================================
