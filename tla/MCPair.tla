------------------------------- MODULE MCPair -------------------------------
(* Two endpoints whose streams have ClientLen and ServerLen distinct bytes. *)
EXTENDS ConnectionPair
CONSTANTS ClientLen, ServerLen, ClientISN, ServerISN
MCEndpoint == {"client", "server"}
MCByte == 1 .. (ClientLen + ServerLen)
MCStream == [e \in MCEndpoint |->
                IF e = "client" THEN [i \in 1 .. ClientLen |-> i]
                ELSE [i \in 1 .. ServerLen |-> ClientLen + i]]
MCISN == [e \in MCEndpoint |-> IF e = "client" THEN ClientISN ELSE ServerISN]
=============================================================================
