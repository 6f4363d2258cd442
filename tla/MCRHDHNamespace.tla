-------------------------- MODULE MCRHDHNamespace --------------------------
EXTENDS RHDHNamespace

(* The same spec for every resource, or what one resource may enable.      *)
Same(flags) == [r \in Orchestrators |-> flags]
DevModeOnly == {Same({"devMode"})}
AnyFlags    == {Same(flags) : flags \in SUBSET Flags}

BaseAndPlugins == {"app-config-rhdh", "dynamic-plugins-rhdh"}
=============================================================================
