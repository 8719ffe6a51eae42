------------------------------ MODULE MCLobby ------------------------------
EXTENDS Lobby, TLC

CONSTANTS Gun, Kit, b1, g1

MCPrice  == Gun :> 2 @@ Kit :> 1
MCPreset == b1 :> Entry(Kit, 1) @@ g1 :> Entry(Gun, 1)
=============================================================================
