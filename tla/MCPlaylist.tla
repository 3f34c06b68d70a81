------------------------------- MODULE MCPlaylist -------------------------------
(* Playlist for TLC: files of up to MaxItems lines over two names and junk.     *)
EXTENDS Playlist
================================================================================
