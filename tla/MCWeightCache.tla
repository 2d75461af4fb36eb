--------------------------- MODULE MCWeightCache ---------------------------
(* An ONNX model, one of Demucs with a pre-process model, an MDX-Net         *)
(* checkpoint that infers again, and the denoiser.                           *)
EXTENDS WeightCache

CONSTANTS onnx, demucs, mdx, denoiser

AllKeys == {onnx, demucs, mdx, denoiser}
OrtKeys == {onnx}
HelperKeys == {denoiser}
EarlyKeys == {demucs}
AgainKeys == {mdx}
=============================================================================
