--------------------------- MODULE MCConfigReload ---------------------------
(***************************************************************************)
(* Small instances of ConfigReload: one importable file, a handful of      *)
(* texts for every file that spread keys over several of them.             *)
(***************************************************************************)
EXTENDS ConfigReload, TLC

CONSTANT sites

Text(f, l) == [format |-> f, sets |-> l, import |-> None]

Broken == Text("broken", NoKeys)

(* proksi.hcl: watch, watch the import as well, an interval of zero. *)
HclWatch == Text("hcl", [reload_enabled |-> TRUE, le_email |-> "mail"])

HclImport ==
  [format |-> "hcl", import |-> sites,
   sets |-> [reload_enabled |-> TRUE, reload_paths |-> {sites}, docker_enabled |-> TRUE]]

HclZero == Text("hcl", [reload_enabled |-> None, reload_interval |-> 0])

Hcl == {HclWatch, HclImport, HclZero}

Yaml ==
  {Text("yaml", [le_enabled |-> TRUE, reload_enabled |-> FALSE,
                 store_type |-> "redis", redis_url |-> "url"]),
   Text("yaml", [docker_interval |-> 0, le_email |-> "mail"])}

Yml ==
  {Text("yaml", [store_type |-> "unknown", le_renew |-> 0])}

SitesGood == Text("hcl", [routes |-> {[ip |-> "ip", port |-> 80, headers |-> "taken"]}])

Sites ==
  {SitesGood,
   Text("hcl", [routes |-> {[ip |-> "ip", port |-> 0, headers |-> "taken"]}]),
   Text("hcl", [routes |-> {[ip |-> "ip", port |-> 80, headers |-> "rejected"]}])}

DirectText == Text("hcl", [reload_enabled |-> TRUE, reload_paths |-> {"direct"}])

Direct == {DirectText}

AllTexts == {Broken} \cup Hcl \cup Yaml \cup Yml \cup Sites \cup Direct

TextsOfFile ==
  [f \in Files |->
     {None} \cup
     CASE f = "hcl"    -> {Broken} \cup Hcl
       [] f = "yaml"   -> Yaml
       [] f = "yml"    -> Yml
       [] f = "direct" -> Direct
       [] OTHER        -> Sites]

FirstDisks ==
  {[f \in Files |-> CASE f = "hcl"    -> h
                     [] f = "yaml"   -> y
                     [] f = "direct" -> DirectText
                     [] f = sites    -> SitesGood
                     [] OTHER        -> None] :
     h \in {None, HclWatch, HclImport}, y \in {None} \cup Yaml}

With(path) == [Default EXCEPT !.config_path = path]

Machine(path, env, faults) == [args |-> With(path), env |-> env, faults |-> faults]

SomeMachines ==
  {Machine("dir", NoKeys, {}),
   Machine("dir", [le_enabled |-> None, le_renew |-> 84600], {}),
   Machine("dir", [le_enabled |-> FALSE], {"exec"}),
   Machine("dir", [le_enabled |-> FALSE], {"current_exe", "redis"}),
   Machine("dir", [le_enabled |-> TRUE, le_email |-> "mail"], {"ca"}),
   Machine("dir", [le_enabled |-> TRUE, le_email |-> "mail"], {"cert dir", "redis lost", "dns"}),
   Machine("dir", [le_enabled |-> FALSE], {"notify"}),
   Machine("dir", [docker_enabled |-> TRUE, store_type |-> "memory"], {"docker answer"}),
   Machine("direct", NoKeys, {}),
   Machine(None, [docker_enabled |-> TRUE], {"docker"}),
   Machine(None, NoKeys, {})}
=============================================================================
