-------------------------- MODULE MCEmbeddingModel --------------------------
(* A small instance of EmbeddingModel for TLC: two clicks on the download      *)
(* button and two calls that embed.                                            *)
EXTENDS EmbeddingModel

CONSTANTS click, again, import, search, onnx, tokenizer

=============================================================================
