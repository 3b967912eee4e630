-------------------------- MODULE ImageConfigStore --------------------------
(***************************************************************************)
(* The image API configuration as a ConfigStore: the API url, with none,   *)
(* one or two endpoint paths at its end, and the key of that provider.     *)
(* Save writes the normalised url and caches the one it was given.         *)
(***************************************************************************)
EXTENDS ConfigStore

Config(u, k) == [url |-> u, key |-> k]

(* OpenAI with and without its key sk, a gateway with its key gk and with  *)
(* endpoint paths after its url, and nothing.                              *)
ImageConfigs ==
  {Config("empty", "none"), Config("openai", "none"), Config("openai", "sk")} \cup
  {Config(u, "gk") : u \in {"gateway", "gateway endpoint", "gateway endpoints"}}

ImageDefault == Config("openai", "none")

(* normalizeImageAPIBaseURL: one endpoint path (/images/generations and    *)
(* the like) is cut off.  A trailing slash goes the same way.              *)
BaseURL(u) ==
  CASE u = "gateway endpoint" -> "gateway"
    [] u = "gateway endpoints" -> "gateway endpoint"
    [] OTHER -> u

ImageNorm == [c \in ImageConfigs |-> [c EXCEPT !.url = BaseURL(@)]]

(* ConfigStore's constants, as this store has them.                        *)
ASSUME ImageAssumption ==
  Configs = ImageConfigs /\ Norm = ImageNorm /\ Default = ImageDefault /\ CachesRaw

=============================================================================
