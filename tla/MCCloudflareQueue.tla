------------------------- MODULE MCCloudflareQueue -------------------------
(* Instances of the Cloudflare driver for TLC. *)
EXTENDS CloudflareQueue
=============================================================================
